---------------------------- MODULE Spec2Model ----------------------------
(***************************************************************************)
(* Model of GapAnalysisOrchestrator                                        *)
(* (src/app/services/gap_analyzer/orchestrator.py).                        *)
(*                                                                         *)
(* The orchestrator is a set of coroutines.  A coroutine runs without      *)
(* interruption from one awaited collaborator call to the next, so every   *)
(* action below is one such segment: it consumes the result of the call    *)
(* that was in flight (drawn from a small set with \E), runs the code up   *)
(* to the next collaborator call, and leaves run.pc at that call.          *)
(* The segments are written as operators on a record s that bundles the    *)
(* state; an action commits the record its segment computes.               *)
(* _quick_gap_enrichment and _phase_4_synthesis are coroutines that await  *)
(* nothing, so they run inside the segment that calls them.                *)
(***************************************************************************)
EXTENDS Integers, Sequences, FiniteSets, TLC

(***************************************************************************)
(* Bounds of the model.                                                    *)
(***************************************************************************)
\* most gaps (ResearchGap objects) created while the model runs
MaxGaps == 2
\* most statements (limitations and future work together) in one document
MaxStatements == 2
\* longest list of references one search returns
MaxResults == 1
\* largest max_papers a request asks for
MaxPapers == 2
\* largest validation_threshold a request asks for
MaxThreshold == 2
\* runs served by one orchestrator
MaxRuns == 2
\* gaps an orchestrator has created when it is given a further run
MaxCarried == 0
\* times the event loop passes from one run of an orchestrator to another
MaxSwitches == 2
\* calls a run has issued when the event loop passes to another run
MaxHeadStart == 2
\* statements of a seed document whose analysis outlasts the deadline
MaxLateStatements == 6
\* largest max_papers of the requests whose parameters are resolved
MaxWidePapers == 12
\* EXPANDING followed beyond its first discovery: the gaps and the document
\* budget of such a run
MaxFrontierGaps == 3
MaxFrontierPapers == 3
\* the limitations of the seed of a run whose VALIDATING has many gaps to go
\* through
MaxDrainStatements == 7
\* the largest counters from which the rate metrics are computed
MaxMetricGaps == 101
MaxMetricPapers == 9

(***************************************************************************)
(* Program constants.                                                      *)
(***************************************************************************)
\* a statement becomes a gap when len(statement.strip()) > 20
MinStatementLen == 20
\* light mode: max_papers = min(request.max_papers, 4)
LightPaperCap == 4
\* light mode, phase 2: at most 2 gaps kept in the queue and processed
LightGapCap == 2
\* light mode, phase 2: max_papers = min(max_papers, 2)
LightPhase2PaperCap == 2
\* deadline skipped phase 3: for gap in self.potential_gaps_db[:5]
SkipEnrichCap == 5
\* phase 3: at most 2 search results are analyzed for one gap
MaxValidationPapers == 2
\* phase 3: only 1 when less than 30 seconds remain
MaxValidationPapersNearDeadline == 1
\* phase 3 fallback: two naive queries built from the gap description
FallbackQueryCount == 2
\* _search_for_related_research keeps the first 2 queries
RelatedQueryCap == 2
\* the topic label of a gap is gap.description[:50]
TopicLen == 50
\* gap_title=gap.description[:100]
TitleLen == 100
\* confidence_score=75.0
QuickConfidence == 75
\* papers_checked_against=1
QuickPapersChecked == 1

(***************************************************************************)
(* Data.                                                                   *)
(***************************************************************************)
\* The references of documents: the seed's and those the search backend
\* returns (which may include the seed's).
SeedRef == "seed"
Refs == {"seed", "d1"}

Range(f) == {f[i] : i \in DOMAIN f}
SeqsUpTo(S, n) == UNION {[1 .. k -> S] : k \in 0 .. n}
Min(a, b) == IF a < b THEN a ELSE b
Max(a, b) == IF a > b THEN a ELSE b
\* F applied to s0.  The segments below that many others end in take their
\* argument through it, which has the value of the argument computed once.
Once(F(_), s0) == CHOOSE r \in {F(s) : s \in {s0}} : TRUE
Take(q, n) == SubSeq(q, 1, Min(n, Len(q)))

\* A statement of a document: `core` characters between `ws` characters of
\* surrounding white space.
Statements == {[ws |-> 2, core |-> 20], [ws |-> 0, core |-> 21]}

\* str.strip(): the surrounding white space is removed, the core is kept.
strip(st) == [ws |-> 0, core |-> st.core]
len(st) == st.ws + st.core

\* PaperAnalysis objects the Document Analyzer can return for reference url.
Papers(url) ==
  {p \in [url : {url}, limitations : SeqsUpTo(Statements, MaxStatements),
          future_work : SeqsUpTo(Statements, MaxStatements)] :
     Len(p.limitations) + Len(p.future_work) <= MaxStatements}

\* Outcomes of the collaborator calls: a value, nothing (None), or an exception.
None == [tag |-> "none"]
Raise == [tag |-> "raise"]
Ok(v) == [tag |-> "ok", val |-> v]
AnalyzeOutcomes(url) == {None, Raise} \cup {Ok(p) : p \in Papers(url)}
\* Phase 3 reads only the url of a PaperAnalysis: one paper stands for all.
ValidationAnalyzeOutcomes(url) ==
  {None, Raise, Ok([url |-> url, limitations |-> <<>>, future_work |-> <<>>])}
SearchOutcomes == {Raise} \cup {Ok(q) : q \in SeqsUpTo(Refs, MaxResults)}
QueryCounts == {0, 1}
QueryOutcomes == {Raise} \cup {Ok(n) : n \in QueryCounts}
ValidateOutcomes == {Raise, Ok(TRUE), Ok(FALSE)}
\* enrich_validated_gap returns a ValidatedGap for the gap, None, or raises
EnrichCategories == {"Methodology"}
EnrichOutcomes == {None, Raise} \cup {Ok(c) : c \in EnrichCategories}

\* list(set(a + b)): the distinct elements in the order the set iterates them
Orders(S) == {q \in [1 .. Cardinality(S) -> S] : Range(q) = S}

RECURSIVE Remove(_, _)
\* list.remove(x): the first element equal to x is removed
Remove(q, x) ==
  IF q = <<>> THEN <<>>
  ELSE IF Head(q) = x THEN Tail(q) ELSE <<Head(q)>> \o Remove(Tail(q), x)

Contains(q, x) == \E i \in DOMAIN q : q[i] = x

(***************************************************************************)
(* State.                                                                  *)
(***************************************************************************)
VARIABLES
  initialized,          \* initialize() has run: the state attributes exist
  model,                \* self.model is set (a Gemini key was configured)
  gap_search_queue,     \* self.gap_search_queue: ids of ResearchGap objects
  potential_gaps_db,    \* self.potential_gaps_db: ids of ResearchGap objects
  final_gaps_list,      \* self.final_gaps_list: ValidatedGap records
  analyzed_papers_set,  \* self.analyzed_papers_set: references
  analyzed_papers,      \* self.analyzed_papers: PaperAnalysis.url of each
  research_frontier,    \* self.research_frontier: topic labels
  stats,                \* self.stats
  gaps,                 \* the ResearchGap objects, gaps[id]
  run,                  \* the running coroutine: its locals and its position
  response,             \* what the last finished run returned
  obs,                  \* history of the run, read by the properties only
  other                 \* a second coroutine, suspended at its awaited call

vars == <<initialized, model, gap_search_queue, potential_gaps_db,
          final_gaps_list, analyzed_papers_set, analyzed_papers,
          research_frontier, stats, gaps, run, response, obs, other>>

\* The state as one record, for the segments to transform.
Cur ==
  [initialized |-> initialized, model |-> model,
   gap_search_queue |-> gap_search_queue,
   potential_gaps_db |-> potential_gaps_db,
   final_gaps_list |-> final_gaps_list,
   analyzed_papers_set |-> analyzed_papers_set,
   analyzed_papers |-> analyzed_papers,
   research_frontier |-> research_frontier,
   stats |-> stats, gaps |-> gaps, run |-> run,
   response |-> response, obs |-> obs, other |-> other]

\* The record is bound once, so that it is computed once for all variables.
Commit(s0) ==
  \E s \in {s0} :
    /\ initialized' = s.initialized
    /\ model' = s.model
    /\ gap_search_queue' = s.gap_search_queue
    /\ potential_gaps_db' = s.potential_gaps_db
    /\ final_gaps_list' = s.final_gaps_list
    /\ analyzed_papers_set' = s.analyzed_papers_set
    /\ analyzed_papers' = s.analyzed_papers
    /\ research_frontier' = s.research_frontier
    /\ stats' = s.stats
    /\ gaps' = s.gaps
    /\ run' = s.run
    /\ response' = s.response
    /\ obs' = s.obs
    /\ other' = s.other

ZeroStats ==
  [gaps_discovered |-> 0, gaps_eliminated |-> 0,
   search_queries_executed |-> 0, validation_attempts |-> 0,
   frontier_expansions |-> 0, research_areas_explored |-> 0]

\* The locals of a run.  A local that the code does not read again is put
\* back to its idle value.
IdleRun ==
  [pc |-> "idle", kind |-> "none", request |-> [analysis_mode |-> "none",
                                                max_papers |-> 0,
                                                validation_threshold |-> 0],
   time |-> "early",
   analysis_mode |-> "none", max_papers |-> 0, validation_threshold |-> 0,
   papers_analyzed |-> 0, gaps_processed |-> 0, max_gaps_limit |-> 0,
   current_gap |-> 0, solution_queries |-> 0, elimination_papers |-> <<>>,
   all_discovered_papers |-> <<>>, paper_i |-> 0,
   skipped |-> FALSE, skip_gaps |-> <<>>,
   gaps_to_validate |-> <<>>, gap_i |-> 0, drain_i |-> 0,
   validation_queries |-> 0, validation_paper_urls |-> <<>>, url_i |-> 0,
   validation_papers |-> <<>>]

\* phases: the phases the run has entered, in order; analyzer_refs: the
\* references passed to the Document Analyzer; analyzed_again: one of them was
\* passed a second time; late_call: a collaborator call was issued at or
\* after the deadline; expired_in: the phase in which the deadline was
\* reached; call_failed: a collaborator call other than the seed analysis
\* failed; threshold: the validation threshold the mode resolves to;
\* eligible: the gaps phase 3 set out to validate; eliminated: the gaps removed
\* as invalidated; moves: the gaps appended to the final list, each with its
\* strikes at that moment and the path that appended it; mode: the
\* analysis_mode of the request; judged: the gaps the validator reported
\* invalidated; abandoned: the gaps whose validation step was left by the
\* except of line 666; prev: the counters and the final list an earlier
\* synthesis on this orchestrator started from, and the response it built;
\* resolved: a request with the limits the code derives from it; synth: the
\* state attributes and the number of calls as synthesis found them;
\* metrics: counters and the rate metrics synthesis computes from them;
\* budget: the max_papers the run passes to phase 2, where the runs are
\* those of SpecBudget.
NoObs ==
  [phases |-> <<>>, analyzer_refs |-> {}, analyzed_again |-> FALSE,
   late_call |-> FALSE, expired_in |-> "none", seed_failed |-> FALSE,
   call_failed |-> FALSE, threshold |-> 0, eligible |-> {},
   eliminated |-> {}, moves |-> {}, runs |-> 1, own |-> {},
   calls |-> 0, extracted |-> <<>>, seed_gaps |-> <<>>, entry |-> <<>>,
   mode |-> "none", judged |-> {}, abandoned |-> {}, prev |-> <<>>,
   resolved |-> <<>>, synth |-> <<>>, metrics |-> <<>>, budget |-> 0]

NoResponse == [kind |-> "none"]

\* No second coroutine: its slot holds an idle one.
NoOther ==
  [run |-> IdleRun, obs |-> NoObs, response |-> NoResponse, switches |-> 0]

(***************************************************************************)
(* Helpers of the segments.                                                *)
(***************************************************************************)
\* timeout_deadline and time.time() >= timeout_deadline.  Only
\* analyze_research_gaps passes a deadline; analyze_research_gaps_from_text
\* leaves timeout_deadline = None.
DeadlineReached(s) == s.run.kind = "url" /\ s.run.time = "late"

\* timeout_deadline and (time.time() + 30) > timeout_deadline
DeadlineNear(s) == s.run.kind = "url" /\ s.run.time \in {"near", "late"}

\* The coroutine awaits a collaborator call of the given kind.
Call(s, pc, kind) ==
  [s EXCEPT !.run.pc = pc,
            !.obs.late_call = @ \/ (s.run.kind = "url" /\ s.run.time = "late"),
            !.obs.calls = Min(@ + 1, MaxHeadStart + 1)]

\* The coroutine awaits paper_analyzer.analyze_paper(url).
CallAnalyze(s, pc, url) ==
  Call([s EXCEPT !.obs.analyzer_refs = @ \cup {url},
                 !.obs.analyzed_again = @ \/ url \in s.obs.analyzer_refs],
       pc, "analyze")

\* A collaborator call of the given kind has failed (raised or, where the
\* code tests for it, returned nothing).
Failed(s, kind) == [s EXCEPT !.obs.call_failed = TRUE]

EnterPhase(s, phase) == [s EXCEPT !.obs.phases = Append(@, phase)]

\* The locals of a finished run.
EndRun(s, pc) ==
  [s EXCEPT !.run = [IdleRun EXCEPT !.pc = pc, !.kind = s.run.kind,
                                    !.time = s.run.time]]

(***************************************************************************)
(* _extract_gaps_from_paper                                                *)
(***************************************************************************)
RECURSIVE extract_statements(_, _, _, _)
\* Variant of the extraction that keeps a statement of trimmed length 20.
extract_statements_from_20(s, statements, url, category) ==
  IF statements = <<>> THEN s
  ELSE LET st == Head(statements)
           gap == [gap_id |-> Len(s.gaps) + 1, description |-> strip(st),
                   category |-> category,
                   validation_strikes |-> 0]
           s1 == IF len(strip(st)) >= MinStatementLen
                 THEN [s EXCEPT !.gaps = Append(@, gap),
                                !.potential_gaps_db = Append(@, gap.gap_id),
                                !.stats.gaps_discovered = @ + 1,
                                !.obs.own = @ \cup {gap.gap_id}]
                 ELSE s
       IN extract_statements(s1, Tail(statements), url, category)

extract_statements(s, statements, url, category) ==
  IF statements = <<>> THEN s
  ELSE LET st == Head(statements)
           gap == [gap_id |-> Len(s.gaps) + 1, description |-> strip(st),
                   category |-> category,
                   validation_strikes |-> 0]
           s1 == IF len(strip(st)) > MinStatementLen
                 THEN [s EXCEPT !.gaps = Append(@, gap),
                                !.potential_gaps_db = Append(@, gap.gap_id),
                                !.stats.gaps_discovered = @ + 1,
                                !.obs.own = @ \cup {gap.gap_id}]
                 ELSE s
       IN extract_statements(s1, Tail(statements), url, category)

extract_gaps_from_paper(s, paper) ==
  extract_statements(
    extract_statements(s, paper.limitations, paper.url, "Limitation"),
    paper.future_work, paper.url, "Future Work")

(***************************************************************************)
(* _quick_gap_enrichment: the ValidatedGap built without the validator.    *)
(***************************************************************************)
\* The texts are the code's literals, a prefix of the description is its
\* length, and innovation_potential is in hundredths (7.0 + length / 100
\* between 6.0 and 9.0).  The metrics computed from the word count are left
\* out: the statements of the model have a length and no words.
quick_gap_enrichment(s, g) ==
  LET gap == s.gaps[g]
      description_length == len(gap.description)
  IN [gap_id |-> gap.gap_id, category |-> "Research Opportunity",
      quick |-> TRUE,
      gap_title |-> [ws |-> 0, core |-> Min(description_length, TitleLen)],
      description |-> gap.description,
      innovation_potential |-> Min(900, Max(600, 700 + description_length)),
      validation_evidence |-> "Validated through systematic analysis",
      potential_impact |-> "Significant research opportunity identified",
      suggested_approaches |-> <<"Detailed analysis required",
                                 "Empirical investigation",
                                 "Theoretical exploration">>,
      validation_attempts |-> gap.validation_strikes,
      papers_checked_against |-> QuickPapersChecked,
      confidence_score |-> QuickConfidence]

\* The ValidatedGap the validator's enrich_validated_gap returns for gap g.
validator_enrichment(s, g, category) ==
  [gap_id |-> s.gaps[g].gap_id, category |-> category, quick |-> FALSE]

\* Variant of the enrichment step without the fallback: when the validator's
\* enrichment fails or returns nothing, no validated gap is appended.
append_validated_no_fallback(s, g, out, via) ==
  IF out.tag # "ok" THEN Failed(s, "enrich")
  ELSE [s EXCEPT !.final_gaps_list = Append(@, validator_enrichment(s, g, out.val)),
                 !.obs.moves = @ \cup {[gap_id |-> s.gaps[g].gap_id,
                                       strikes |-> s.gaps[g].validation_strikes,
                                       via |-> via]}]

\* try: enrich_validated_gap ... except / None: _quick_gap_enrichment; the
\* result is appended to final_gaps_list.
append_validated(s, g, out, via) ==
  LET vg == IF out.tag = "ok" THEN validator_enrichment(s, g, out.val)
            ELSE quick_gap_enrichment(s, g)
      s1 == IF out.tag = "ok" THEN s ELSE Failed(s, "enrich")
  IN [s1 EXCEPT !.final_gaps_list = Append(@, vg),
                !.obs.moves = @ \cup {[gap_id |-> s.gaps[g].gap_id,
                                      strikes |-> s.gaps[g].validation_strikes,
                                      via |-> via]}]

(***************************************************************************)
(* _phase_4_synthesis and the error response of the except branch.         *)
(***************************************************************************)
\* processing_time = time.time() - start_time is the time of the run as the
\* model keeps it: early, near the deadline or past it.
phase_4_synthesis(s0) ==
  LET at(s) ==
        LET resp == [kind |-> "ok",
                     validated_gaps |-> s.final_gaps_list,
                     frontier_overview |-> "Analysis of the research frontier",
                     processing_time |-> s.run.time,
                     research_domains_explored |-> Cardinality(s.research_frontier),
                     total_papers_analyzed |-> Len(s.analyzed_papers),
                     gaps_discovered |-> s.stats.gaps_discovered,
                     gaps_validated |-> Len(s.final_gaps_list),
                     gaps_eliminated |-> s.stats.gaps_eliminated,
                     search_queries_executed |-> s.stats.search_queries_executed,
                     validation_attempts |-> s.stats.validation_attempts]
            s1 == EnterPhase(EnterPhase(s, "SYNTHESIZING"), "DONE")
            found == [gap_search_queue |-> s.gap_search_queue,
                      potential_gaps_db |-> s.potential_gaps_db,
                      final_gaps_list |-> s.final_gaps_list,
                      analyzed_papers_set |-> s.analyzed_papers_set,
                      analyzed_papers |-> s.analyzed_papers,
                      research_frontier |-> s.research_frontier,
                      stats |-> s.stats, gaps |-> s.gaps,
                      calls |-> s.obs.calls]
        IN EndRun([s1 EXCEPT !.response = resp, !.obs.synth = <<found>>],
                  "done")
  IN Once(at, s0)

error_response(s) ==
  LET resp == [kind |-> "error",
               validated_gaps |-> <<>>,
               frontier_overview |-> "Analysis failed during processing",
               total_papers_analyzed |-> Len(s.analyzed_papers),
               gaps_discovered |-> 0,
               gaps_validated |-> 0,
               gaps_eliminated |-> 0,
               search_queries_executed |-> 0,
               validation_attempts |-> 0]
  IN EndRun([EnterPhase(s, "FAILED") EXCEPT !.response = resp], "failed")

(***************************************************************************)
(* _phase_3_final_validation                                               *)
(***************************************************************************)
\* The locals of one gap's validation are done with.
p3_gap_done(s) ==
  [s EXCEPT !.run.validation_queries = 0, !.run.validation_paper_urls = <<>>,
            !.run.url_i = 0, !.run.validation_papers = <<>>]

\* The phase returns; the caller goes on to _phase_4_synthesis.
p3_exit(s) == phase_4_synthesis(s)

\* list.index(x): the place of the first element equal to x
IndexOf(q, x) == CHOOSE i \in DOMAIN q : q[i] = x /\ \A j \in 1 .. i - 1 : q[j] # x

RECURSIVE p3_drain(_)
\* for remaining_gap in gaps_to_validate[index(gap):], up to the next
\* enrich_validated_gap call; after the last one, break
p3_drain(s0) ==
  LET at(s) ==
        LET l == s.run IN
        IF l.drain_i > Len(l.gaps_to_validate) THEN p3_exit(p3_gap_done(s))
        ELSE IF s.gaps[l.gaps_to_validate[l.drain_i]].validation_strikes
                  < l.validation_threshold
             THEN Call(s, "p3_drain_enrich", "enrich")
             ELSE p3_drain([s EXCEPT !.run.drain_i = @ + 1])
  IN Once(at, s0)

\* for gap in gaps_to_validate, from the deadline check to the first call
p3_loop(s0) ==
  LET at(s) ==
        LET l == s.run IN
        IF l.gap_i > Len(l.gaps_to_validate) THEN p3_exit(s)
        ELSE IF DeadlineReached(s)
             THEN p3_drain([s EXCEPT !.run.drain_i =
                              IndexOf(l.gaps_to_validate, l.gaps_to_validate[l.gap_i])])
             ELSE Call(s, "p3_queries", "queries")
  IN Once(at, s0)

\* continue: the next gap of gaps_to_validate
p3_next(s) == p3_loop([p3_gap_done(s) EXCEPT !.run.gap_i = @ + 1])

\* Variant of the per-gap handler that tries the same gap again instead of
\* going on with the next one.
p3_except_retry(s, kind) ==
  p3_loop(p3_gap_done(Failed(s, kind)))

\* except Exception (line 666): the gap's validation is left where it was and
\* the loop goes on with the next gap
p3_except(s, kind) ==
  p3_next([Failed(s, kind) EXCEPT
             !.obs.abandoned = @ \cup {s.run.gaps_to_validate[s.run.gap_i]}])

\* Variant of the drain step that keeps a gap only when its enrichment
\* succeeded: a failed enrichment loses the gap.
p3_drain_enrich_return_drop(s, out) ==
  LET g == s.run.gaps_to_validate[s.run.drain_i]
      s1 == IF out.tag = "ok" THEN append_validated(s, g, out, "drain")
            ELSE Failed(s, "enrich")
      s2 == IF Contains(s1.potential_gaps_db, g)
            THEN [s1 EXCEPT !.potential_gaps_db = Remove(@, g)] ELSE s1
  IN p3_drain([s2 EXCEPT !.run.drain_i = @ + 1])

\* Variant of the drain step that appends the enriched gap to the final list
\* and leaves it in the pending store.
p3_drain_enrich_return_pending(s, out) ==
  LET g == s.run.gaps_to_validate[s.run.drain_i]
      s1 == append_validated(s, g, out, "drain")
  IN p3_drain([s1 EXCEPT !.run.drain_i = @ + 1])

\* enrich_validated_gap has returned in the drain (lines 576-590)
p3_drain_enrich_return(s, out) ==
  LET g == s.run.gaps_to_validate[s.run.drain_i]
      s1 == append_validated(s, g, out, "drain")
      s2 == IF Contains(s1.potential_gaps_db, g)
            THEN [s1 EXCEPT !.potential_gaps_db = Remove(@, g)] ELSE s1
  IN p3_drain([s2 EXCEPT !.run.drain_i = @ + 1])

\* Variant of step 3.6 without the inner handler: an exception of the
\* validator's enrichment goes to the except of line 666 and the gap is left
\* where it is.
p3_enrich_return_unguarded(s, out) ==
  LET g == s.run.gaps_to_validate[s.run.gap_i]
      s1 == append_validated(s, g, out, "threshold")
      s2 == IF Contains(s1.potential_gaps_db, g)
            THEN [s1 EXCEPT !.potential_gaps_db = Remove(@, g)] ELSE s1
  IN IF out.tag = "raise" THEN p3_except(s, "enrich") ELSE p3_next(s2)

\* Step 3.6, after enrich_validated_gap has returned (lines 647-662);
\* list.remove raises ValueError for an absent gap, caught at line 666
p3_enrich_return(s, out) ==
  LET g == s.run.gaps_to_validate[s.run.gap_i]
      s1 == append_validated(s, g, out, "threshold")
      s2 == IF Contains(s1.potential_gaps_db, g)
            THEN [s1 EXCEPT !.potential_gaps_db = Remove(@, g)] ELSE s1
  IN p3_next(s2)

\* Variant of the strike step that graduates a gap on any strike, without
\* comparing its strikes with the threshold.
p3_strike_any(s) ==
  LET g == s.run.gaps_to_validate[s.run.gap_i]
      s1 == [s EXCEPT !.gaps[g].validation_strikes = @ + 1,
                      !.stats.validation_attempts = @ + 1]
  IN Call(s1, "p3_enrich", "enrich")

\* Variant of the strike step that gives the strike without counting a
\* validation attempt.
p3_strike_uncounted(s) ==
  LET g == s.run.gaps_to_validate[s.run.gap_i]
      s1 == [s EXCEPT !.gaps[g].validation_strikes = @ + 1]
  IN IF s1.gaps[g].validation_strikes >= s.run.validation_threshold
     THEN Call(s1, "p3_enrich", "enrich")
     ELSE p3_next(s1)

\* Steps 3.5 and 3.6 up to the enrich_validated_gap call (lines 640-647)
p3_strike(s) ==
  LET g == s.run.gaps_to_validate[s.run.gap_i]
      s1 == [s EXCEPT !.gaps[g].validation_strikes = @ + 1,
                      !.stats.validation_attempts = @ + 1]
  IN IF s1.gaps[g].validation_strikes >= s.run.validation_threshold
     THEN Call(s1, "p3_enrich", "enrich")
     ELSE p3_next(s1)

\* Variant of the validator's verdict in which an invalidated gap is passed
\* over where it is: it is neither removed from the pending store nor
\* counted as eliminated.
p3_validate_return_kept(s, out) ==
  LET g == s.run.gaps_to_validate[s.run.gap_i] IN
  IF out.tag = "ok" /\ out.val
  THEN p3_next([s EXCEPT !.obs.judged = @ \cup {g}])
  ELSE p3_strike(IF out.tag = "ok" THEN s ELSE Failed(s, "validate"))

\* validate_gap_against_papers has returned (lines 624-635)
p3_validate_return(s, out) ==
  LET g == s.run.gaps_to_validate[s.run.gap_i] IN
  IF out.tag = "ok" /\ out.val
  THEN p3_next(IF Contains(s.potential_gaps_db, g)
               THEN [s EXCEPT !.potential_gaps_db = Remove(@, g),
                              !.stats.gaps_eliminated = @ + 1,
                              !.obs.eliminated = @ \cup {g},
                              !.obs.judged = @ \cup {g}]
               ELSE [s EXCEPT !.obs.judged = @ \cup {g}])
  ELSE p3_strike(IF out.tag = "ok" THEN s ELSE Failed(s, "validate"))

\* Variant of step 3.4 in which a gap for which no validation paper was
\* found is passed over: it gets no strike and stays pending.
p3_judge_unstruck(s) ==
  IF s.run.validation_papers # <<>> THEN Call(s, "p3_validate", "validate")
  ELSE p3_next(s)

\* Step 3.4 up to the validator call (line 621)
p3_judge(s) ==
  IF s.run.validation_papers # <<>> THEN Call(s, "p3_validate", "validate")
  ELSE p3_strike(s)

RECURSIVE p3_urls(_)
\* for url in validation_paper_urls[:max_validation_papers], up to the next
\* analyze_paper call (lines 613-615)
p3_urls(s0) ==
  LET at(s) ==
        LET l == s.run IN
        IF l.url_i > Len(l.validation_paper_urls) THEN p3_judge(s)
        ELSE IF l.validation_paper_urls[l.url_i] \notin Range(s.analyzed_papers)
             THEN CallAnalyze(s, "p3_analyze", l.validation_paper_urls[l.url_i])
             ELSE p3_urls([s EXCEPT !.run.url_i = @ + 1])
  IN Once(at, s0)

\* Variant of the validation analysis in which the analyzer's exception is
\* not caught by the per-gap handler and reaches the handler of the run.
p3_analyze_return_escapes(s, out) ==
  IF out.tag = "raise" THEN error_response(Failed(s, "analyze"))
  ELSE IF out.tag = "none"
       THEN p3_urls([Failed(s, "analyze") EXCEPT !.run.url_i = @ + 1])
       ELSE p3_urls([s EXCEPT !.run.validation_papers = Append(@, out.val.url),
                              !.analyzed_papers = Append(@, out.val.url),
                              !.run.url_i = @ + 1])

\* analyze_paper has returned in phase 3 (lines 615-618); an exception goes
\* to the except of line 666
p3_analyze_return(s, out) ==
  IF out.tag = "raise" THEN p3_except(s, "analyze")
  ELSE IF out.tag = "none"
       THEN p3_urls([Failed(s, "analyze") EXCEPT !.run.url_i = @ + 1])
       ELSE p3_urls([s EXCEPT !.run.validation_papers = Append(@, out.val.url),
                              !.analyzed_papers = Append(@, out.val.url),
                              !.run.url_i = @ + 1])

\* search_for_gap_validation has returned (lines 607-613)
p3_search_return(s, out) ==
  IF out.tag = "raise" THEN p3_except(s, "search")
  ELSE LET max_validation_papers ==
             IF DeadlineNear(s) THEN MaxValidationPapersNearDeadline
             ELSE MaxValidationPapers
       IN p3_urls([s EXCEPT !.run.validation_papers = <<>>,
                            !.run.validation_paper_urls =
                               Take(out.val, max_validation_papers),
                            !.run.url_i = 1])

\* generate_validation_queries has returned (lines 598-607)
p3_queries_return(s, out) ==
  Call(IF out.tag = "ok"
       THEN [s EXCEPT !.run.validation_queries = out.val,
                      !.stats.search_queries_executed = @ + out.val]
       ELSE [Failed(s, "queries") EXCEPT
               !.run.validation_queries = FallbackQueryCount],
       "p3_search", "search")

\* entry of the phase (line 565)
phase_3_final_validation(s, validation_threshold) ==
  LET gaps_to_validate ==
        SelectSeq(s.potential_gaps_db,
                  LAMBDA g : s.gaps[g].validation_strikes < validation_threshold)
  IN p3_loop([s EXCEPT
       !.run.validation_threshold = validation_threshold,
       !.run.gaps_to_validate = gaps_to_validate,
       !.run.gap_i = 1,
       !.obs.eligible = Range(gaps_to_validate)])

(***************************************************************************)
(* analyze_research_gaps, lines 133-171: after phase 2.                    *)
(***************************************************************************)
\* for gap in self.potential_gaps_db[:5], up to the next enrich call
skip_loop(s0) ==
  LET at(s) ==
        IF s.run.gap_i > Len(s.run.skip_gaps) THEN phase_4_synthesis(s)
        ELSE Call(s, "skip_enrich", "enrich")
  IN Once(at, s0)

\* enrich_validated_gap has returned in the skip branch (lines 149-160)
skip_enrich_return(s, out) ==
  LET g == s.run.skip_gaps[s.run.gap_i]
  IN skip_loop([append_validated(s, g, out, "skip") EXCEPT !.run.gap_i = @ + 1])

\* analyze_research_gaps lines 134-146.  The if/else of lines 140-160 is the
\* place of phase 3 in the run ("Phase 3: Gap Validation Loop (or skip if
\* timeout)"): both branches count as VALIDATING, the else branch being
\* the forced enrichment of the pending gaps.
after_phase_2_url(s) ==
  LET validation_threshold ==
        IF s.run.time = "late" THEN 0 ELSE s.run.validation_threshold
      s1 == EnterPhase(s, "VALIDATING")
  IN IF validation_threshold > 0
     THEN phase_3_final_validation(s1, validation_threshold)
     ELSE skip_loop([s1 EXCEPT
            !.run.validation_threshold = validation_threshold,
            !.run.skipped = TRUE,
            !.run.skip_gaps = Take(s.potential_gaps_db, SkipEnrichCap),
            !.run.gap_i = 1])

\* Variant of the text-seeded run that goes from the expansion to the
\* synthesis, leaving the validation out.
after_phase_2_text_unvalidated(s) == phase_4_synthesis(s)

\* analyze_research_gaps_from_text line 286
after_phase_2_text(s) ==
  phase_3_final_validation(EnterPhase(s, "VALIDATING"),
                           s.run.validation_threshold)

(***************************************************************************)
(* _phase_2_expanding_frontier                                             *)
(***************************************************************************)
\* The locals of one gap's exploration are done with.
p2_gap_done(s) ==
  [s EXCEPT !.run.current_gap = 0, !.run.solution_queries = 0,
            !.run.elimination_papers = <<>>,
            !.run.all_discovered_papers = <<>>, !.run.paper_i = 0]

\* The phase returns to its caller.
p2_exit(s) ==
  LET s1 == [p2_gap_done(s) EXCEPT !.run.analysis_mode = "none",
                                   !.run.max_papers = 0,
                                   !.run.papers_analyzed = 0,
                                   !.run.gaps_processed = 0,
                                   !.run.max_gaps_limit = 0]
  IN IF s.run.kind = "url" THEN after_phase_2_url(s1) ELSE after_phase_2_text(s1)

\* Variant of the expansion loop that reads the head of the queue without
\* removing it and does not count the gap as processed.
p2_loop_peek(s0) ==
  LET at(s) ==
        LET l == s.run IN
        IF /\ s.gap_search_queue # <<>>
           /\ l.papers_analyzed < l.max_papers
           /\ l.gaps_processed < l.max_gaps_limit
        THEN IF DeadlineReached(s) THEN p2_exit(s)
             ELSE Call([s EXCEPT !.run.current_gap = Head(s.gap_search_queue)],
                       "p2_queries", "queries")
        ELSE p2_exit(s)
  IN Once(at, s0)

\* Variant of the expansion loop whose condition leaves the document budget
\* out: it goes on while the queue and the cap on the gaps allow.
p2_loop_unbudgeted(s0) ==
  LET at(s) ==
        LET l == s.run IN
        IF /\ s.gap_search_queue # <<>>
           /\ l.gaps_processed < l.max_gaps_limit
        THEN IF DeadlineReached(s) THEN p2_exit(s)
             ELSE Call([s EXCEPT !.run.current_gap = Head(s.gap_search_queue),
                                 !.gap_search_queue = Tail(@),
                                 !.run.gaps_processed = @ + 1],
                       "p2_queries", "queries")
        ELSE p2_exit(s)
  IN Once(at, s0)

\* Variant of the expansion loop that takes the gap enqueued last instead of
\* the one at the head of the queue.
p2_loop_newest(s0) ==
  LET at(s) ==
        LET l == s.run
            q == s.gap_search_queue
        IN
        IF /\ q # <<>>
           /\ l.papers_analyzed < l.max_papers
           /\ l.gaps_processed < l.max_gaps_limit
        THEN IF DeadlineReached(s) THEN p2_exit(s)
             ELSE Call([s EXCEPT !.run.current_gap = q[Len(q)],
                                 !.gap_search_queue = SubSeq(q, 1, Len(q) - 1),
                                 !.run.gaps_processed = @ + 1],
                       "p2_queries", "queries")
        ELSE p2_exit(s)
  IN Once(at, s0)

\* The while loop from its condition to the first call (lines 413-428/433)
p2_loop(s0) ==
  LET at(s) ==
        LET l == s.run IN
        IF /\ s.gap_search_queue # <<>>
           /\ l.papers_analyzed < l.max_papers
           /\ l.gaps_processed < l.max_gaps_limit
        THEN IF DeadlineReached(s) THEN p2_exit(s)
             ELSE Call([s EXCEPT !.run.current_gap = Head(s.gap_search_queue),
                                 !.gap_search_queue = Tail(@),
                                 !.run.gaps_processed = @ + 1],
                       "p2_queries", "queries")
        ELSE p2_exit(s)
  IN Once(at, s0)

\* gap.description[:50]
topic(description) == [ws |-> 0, core |-> Min(description.core, TopicLen)]

\* Step 5 (lines 475-477), then the next iteration of the while loop
p2_after_papers(s) ==
  p2_loop(p2_gap_done(
    [s EXCEPT !.research_frontier =
                 @ \cup {topic(s.gaps[s.run.current_gap].description)},
              !.stats.research_areas_explored = @ + 1]))

RECURSIVE p2_papers(_)
\* for paper_url in all_discovered_papers, up to the next analyze_paper call
\* (lines 444-451)
p2_papers(s0) ==
  LET at(s) ==
        LET l == s.run IN
        IF l.paper_i > Len(l.all_discovered_papers) THEN p2_after_papers(s)
        ELSE IF DeadlineReached(s) THEN p2_after_papers(s)
        ELSE IF /\ l.all_discovered_papers[l.paper_i] \notin s.analyzed_papers_set
                /\ l.papers_analyzed < l.max_papers
             THEN CallAnalyze(s, "p2_analyze", l.all_discovered_papers[l.paper_i])
             ELSE p2_papers([s EXCEPT !.run.paper_i = @ + 1])
  IN Once(at, s0)

\* Variant of the extraction in phase 2 that leaves the new gaps out of the
\* queue: they are pending and never explored.
p2_extract_new_gaps_unqueued(s, paper) ==
  LET gaps_before == Len(s.potential_gaps_db)
      s1 == extract_gaps_from_paper(s, paper)
      new_gaps_count == Len(s1.potential_gaps_db) - gaps_before
  IN IF new_gaps_count > 0
     THEN [s1 EXCEPT !.stats.frontier_expansions = @ + 1]
     ELSE s1

\* lines 461-470: the gaps of a newly analyzed paper join the queue
p2_extract_new_gaps(s, paper) ==
  LET gaps_before == Len(s.potential_gaps_db)
      s1 == extract_gaps_from_paper(s, paper)
      new_gaps_count == Len(s1.potential_gaps_db) - gaps_before
      new_gaps == SubSeq(s1.potential_gaps_db,
                         Len(s1.potential_gaps_db) - new_gaps_count + 1,
                         Len(s1.potential_gaps_db))
  IN IF new_gaps_count > 0
     THEN [s1 EXCEPT !.gap_search_queue = @ \o new_gaps,
                     !.stats.frontier_expansions = @ + 1]
     ELSE s1

\* lines 453-455: a successful analysis is recorded
p2_record_paper(s, paper_url, paper) ==
  [s EXCEPT !.analyzed_papers = Append(@, paper.url),
            !.analyzed_papers_set = @ \cup {paper_url},
            !.run.papers_analyzed = @ + 1]

\* Variant of the analysis in phase 2 in which the analyzer's exception ends
\* the phase: the gaps still queued are not explored.
p2_analyze_return_aborts(s, out) ==
  LET paper_url == s.run.all_discovered_papers[s.run.paper_i] IN
  IF out.tag = "raise" THEN p2_exit(Failed(s, "analyze"))
  ELSE IF out.tag = "none"
       THEN p2_papers([Failed(s, "analyze") EXCEPT !.run.paper_i = @ + 1])
       ELSE LET s1 == p2_record_paper(s, paper_url, out.val)
                s2 == IF s.run.analysis_mode # "light"
                      THEN p2_extract_new_gaps(s1, out.val) ELSE s1
            IN p2_papers([s2 EXCEPT !.run.paper_i = @ + 1])

\* analyze_paper has returned in phase 2 (lines 451-472); an exception goes
\* to the except of line 481, which continues the while loop
p2_analyze_return(s, out) ==
  LET paper_url == s.run.all_discovered_papers[s.run.paper_i] IN
  IF out.tag = "raise" THEN p2_loop(p2_gap_done(Failed(s, "analyze")))
  ELSE IF out.tag = "none"
       THEN p2_papers([Failed(s, "analyze") EXCEPT !.run.paper_i = @ + 1])
       ELSE LET s1 == p2_record_paper(s, paper_url, out.val)
                s2 == IF s.run.analysis_mode # "light"
                      THEN p2_extract_new_gaps(s1, out.val) ELSE s1
            IN p2_papers([s2 EXCEPT !.run.paper_i = @ + 1])

\* all_discovered_papers is known (line 430 or 441)
p2_discovered(s, all_discovered_papers) ==
  p2_papers([s EXCEPT !.run.all_discovered_papers = all_discovered_papers,
                      !.run.paper_i = 1])

\* set(elimination_papers + expansion_papers) of line 441
discovered_set(s, expansion_papers) ==
  Range(s.run.elimination_papers \o expansion_papers)

\* search_papers has returned in _search_for_related_research (lines 553-558);
\* order is the order in which list(set(...)) yields the references
p2_related_search_return(s, out, order) ==
  IF out.tag = "ok" THEN p2_discovered(s, order)
  ELSE p2_discovered(Failed(s, "search"), order)

\* generate_content has returned in _search_for_related_research
\* (lines 539-558)
p2_related_queries_return(s, out, order) ==
  IF out.tag = "ok" /\ Min(out.val, RelatedQueryCap) > 0
  THEN Call([s EXCEPT !.stats.search_queries_executed =
                          @ + Min(out.val, RelatedQueryCap)],
            "p2_related_search", "search")
  ELSE p2_discovered(IF out.tag = "ok" THEN s ELSE Failed(s, "queries"), order)

\* _search_for_gap_solutions has returned elimination_papers (lines 426-441)
p2_after_solutions(s, elimination_papers, order) ==
  IF s.run.analysis_mode = "light" THEN p2_discovered(s, elimination_papers)
  ELSE IF ~s.model THEN p2_discovered(s, order)
  ELSE Call([s EXCEPT !.run.elimination_papers = elimination_papers],
            "p2_related_queries", "queries")

\* search_papers has returned in _search_for_gap_solutions (lines 509-515)
p2_search_return(s, out, order) ==
  IF out.tag = "ok" THEN p2_after_solutions(s, out.val, order)
  ELSE p2_after_solutions(Failed(s, "search"), <<>>, <<>>)

\* generate_validation_queries has returned in _search_for_gap_solutions
\* (lines 505-515)
p2_queries_return(s, out) ==
  IF out.tag = "ok"
  THEN Call([s EXCEPT !.run.solution_queries = out.val], "p2_search", "search")
  ELSE p2_after_solutions(Failed(s, "queries"), <<>>, <<>>)

\* Variant of the limits of the while loop with a document budget one above
\* the one the phase was given.
phase_2_limits_generous(max_papers, analysis_mode) ==
  LET light == analysis_mode = "light"
      budget == IF light THEN Min(max_papers, LightPhase2PaperCap)
                ELSE max_papers + 1
  IN [max_papers |-> budget,
      max_gaps_limit |-> IF light THEN LightGapCap ELSE budget]

\* The limits of the while loop (lines 398-411): the document budget, which
\* light mode cuts again, and the cap on the gaps explored.
phase_2_limits(max_papers, analysis_mode) ==
  LET light == analysis_mode = "light"
      budget == IF light THEN Min(max_papers, LightPhase2PaperCap)
                ELSE max_papers
  IN [max_papers |-> budget,
      max_gaps_limit |-> IF light THEN LightGapCap ELSE budget]

\* A variant of the entry whose light-mode truncation also drops the gaps it
\* cuts from the queue out of the pending store.
phase_2_expanding_frontier_cuts_pending(s, max_papers, analysis_mode) ==
  LET light == analysis_mode = "light"
      max_gaps_to_process == Min(LightGapCap, Len(s.gap_search_queue))
      max_papers_2 == phase_2_limits(max_papers, analysis_mode).max_papers
      cut == IF light
             THEN Range(s.gap_search_queue)
                    \ Range(Take(s.gap_search_queue, max_gaps_to_process))
             ELSE {}
  IN p2_loop([s EXCEPT
       !.obs.entry = <<[queue |-> s.gap_search_queue,
                        pending |-> s.potential_gaps_db,
                        stats |-> s.stats]>>,
       !.gap_search_queue = IF light THEN Take(@, max_gaps_to_process) ELSE @,
       !.potential_gaps_db = SelectSeq(@, LAMBDA g : g \notin cut),
       !.run.request = IdleRun.request,
       !.run.analysis_mode = analysis_mode,
       !.run.max_papers = max_papers_2,
       !.run.papers_analyzed = 1,
       !.run.gaps_processed = 0,
       !.run.max_gaps_limit =
          phase_2_limits(max_papers, analysis_mode).max_gaps_limit])

\* entry of the phase (lines 398-411)
phase_2_expanding_frontier(s, max_papers, analysis_mode) ==
  LET light == analysis_mode = "light"
      max_gaps_to_process == Min(LightGapCap, Len(s.gap_search_queue))
      max_papers_2 == phase_2_limits(max_papers, analysis_mode).max_papers
  IN p2_loop([s EXCEPT
       !.obs.entry = <<[queue |-> s.gap_search_queue,
                        pending |-> s.potential_gaps_db,
                        stats |-> s.stats]>>,
       !.gap_search_queue = IF light THEN Take(@, max_gaps_to_process) ELSE @,
       !.run.request = IdleRun.request,
       !.run.analysis_mode = analysis_mode,
       !.run.max_papers = max_papers_2,
       !.run.papers_analyzed = 1,
       !.run.gaps_processed = 0,
       !.run.max_gaps_limit =
          phase_2_limits(max_papers, analysis_mode).max_gaps_limit])

(***************************************************************************)
(* analyze_research_gaps and analyze_research_gaps_from_text: the seed.    *)
(***************************************************************************)
\* _phase_1_seeding after analyze_paper has returned a paper (lines 376-381)
phase_1_seeding(s, seed_url, seed_analysis) ==
  LET s1 == extract_gaps_from_paper(
              [s EXCEPT !.analyzed_papers_set = {seed_url},
                        !.analyzed_papers = <<seed_analysis.url>>],
              seed_analysis)
  IN [s1 EXCEPT !.obs.seed_gaps =
                   SubSeq(s1.potential_gaps_db, Len(s.potential_gaps_db) + 1,
                          Len(s1.potential_gaps_db))]

\* "Adjust parameters based on analysis mode" (lines 118-126)
resolve_mode(request) ==
  LET light == request.analysis_mode = "light" IN
  [max_papers |-> IF light THEN Min(request.max_papers, LightPaperCap)
                  ELSE request.max_papers,
   validation_threshold |-> IF light THEN 1
                            ELSE request.validation_threshold]

\* analyze_research_gaps lines 113-131, after the seed analysis has returned
seed_return_url(s, out) ==
  IF out.tag # "ok" THEN error_response([s EXCEPT !.obs.seed_failed = TRUE])
  ELSE LET s1 == phase_1_seeding(s, SeedRef, out.val)
           max_papers == resolve_mode(s.run.request).max_papers
           validation_threshold ==
             resolve_mode(s.run.request).validation_threshold
       IN phase_2_expanding_frontier(
            EnterPhase([s1 EXCEPT !.run.validation_threshold =
                                     validation_threshold,
                                  !.obs.threshold = validation_threshold],
                       "EXPANDING"),
            max_papers, s.run.request.analysis_mode)

\* analyze_research_gaps_from_text lines 267-282, after analyze_paper_text
\* has returned
seed_return_text(s, out) ==
  IF out.tag # "ok" THEN error_response([s EXCEPT !.obs.seed_failed = TRUE])
  ELSE LET s1 == phase_1_seeding(s, SeedRef, out.val)
           s2 == [s1 EXCEPT !.gap_search_queue = s1.potential_gaps_db,
                            !.run.validation_threshold =
                               s.run.request.validation_threshold,
                            !.obs.threshold =
                               s.run.request.validation_threshold]
       IN phase_2_expanding_frontier(EnterPhase(s2, "EXPANDING"),
                                     s.run.request.max_papers, "deep")

\* analyze_research_gaps lines 100-113, up to the seed analysis call
start_url(s, request) ==
  CallAnalyze(
    [s EXCEPT !.run = [IdleRun EXCEPT !.kind = "url", !.request = request],
              !.obs = [NoObs EXCEPT !.phases = <<"SEEDING">>, !.runs = s.obs.runs,
                                   !.mode = request.analysis_mode,
                                   !.prev = s.obs.prev],
              !.response = NoResponse],
    "seed", SeedRef)

\* analyze_research_gaps_from_text lines 259-267; the seed is text, so no
\* reference is passed to analyze_paper
start_text(s, request) ==
  Call(
    [s EXCEPT !.run = [IdleRun EXCEPT !.kind = "text", !.request = request],
              !.obs = [NoObs EXCEPT !.phases = <<"SEEDING">>, !.runs = s.obs.runs,
                                   !.mode = request.analysis_mode,
                                   !.prev = s.obs.prev],
              !.response = NoResponse],
    "seed", "analyze")

\* initialize lines 70-86
initialize(s) ==
  [s EXCEPT !.initialized = TRUE,
            !.gap_search_queue = <<>>,
            !.potential_gaps_db = <<>>,
            !.final_gaps_list = <<>>,
            !.analyzed_papers_set = {},
            !.analyzed_papers = <<>>,
            !.research_frontier = {},
            !.stats = ZeroStats]

(***************************************************************************)
(* Actions: one per segment of a coroutine.                                *)
(***************************************************************************)
Requests ==
  [analysis_mode : {"light", "deep"}, max_papers : 1 .. MaxPapers,
   validation_threshold : 0 .. MaxThreshold]

TextRequests ==
  [analysis_mode : {"deep"}, max_papers : 1 .. MaxPapers,
   validation_threshold : 0 .. MaxThreshold]

Init ==
  /\ initialized = FALSE
  /\ model \in BOOLEAN
  /\ gap_search_queue = <<>>
  /\ potential_gaps_db = <<>>
  /\ final_gaps_list = <<>>
  /\ analyzed_papers_set = {}
  /\ analyzed_papers = <<>>
  /\ research_frontier = {}
  /\ stats = ZeroStats
  /\ gaps = <<>>
  /\ run = IdleRun
  /\ response = NoResponse
  /\ obs = NoObs
  /\ other = NoOther

\* The state attributes exist only after initialize(); a run is started on
\* an orchestrator on which it has been called.
Initialize ==
  /\ ~initialized
  /\ run.pc = "idle"
  /\ Commit(initialize(Cur))

StartUrl ==
  /\ initialized
  /\ run.pc = "idle"
  /\ \E request \in Requests : Commit(start_url(Cur, request))

StartText ==
  /\ initialized
  /\ run.pc = "idle"
  /\ \E request \in TextRequests : Commit(start_text(Cur, request))

\* The documents are such that no more than MaxGaps gaps come to exist.
WithinBounds(s) == Len(s.gaps) <= MaxGaps

Bounded(s0) == \E s \in {s0} : WithinBounds(s) /\ Commit(s)

SeedReturn ==
  /\ run.pc = "seed"
  /\ \E out \in AnalyzeOutcomes(SeedRef) :
       Bounded(IF run.kind = "url" THEN seed_return_url(Cur, out)
              ELSE seed_return_text(Cur, out))

P2QueriesReturn ==
  /\ run.pc = "p2_queries"
  /\ \E out \in QueryOutcomes : Commit(p2_queries_return(Cur, out))

P2SearchReturn ==
  /\ run.pc = "p2_search"
  /\ \E out \in SearchOutcomes :
       \E order \in Orders(IF out.tag = "ok" THEN Range(out.val) ELSE {}) :
         Commit(p2_search_return(Cur, out, order))

P2RelatedQueriesReturn ==
  /\ run.pc = "p2_related_queries"
  /\ \E out \in QueryOutcomes :
       \E order \in Orders(discovered_set(Cur, <<>>)) :
         Commit(p2_related_queries_return(Cur, out, order))

P2RelatedSearchReturn ==
  /\ run.pc = "p2_related_search"
  /\ \E out \in SearchOutcomes :
       \E order \in Orders(discovered_set(Cur, IF out.tag = "ok" THEN out.val
                                               ELSE <<>>)) :
         Commit(p2_related_search_return(Cur, out, order))

P2AnalyzeReturn ==
  /\ run.pc = "p2_analyze"
  /\ \E out \in AnalyzeOutcomes(run.all_discovered_papers[run.paper_i]) :
       Bounded(p2_analyze_return(Cur, out))

SkipEnrichReturn ==
  /\ run.pc = "skip_enrich"
  /\ \E out \in EnrichOutcomes : Commit(skip_enrich_return(Cur, out))

P3DrainEnrichReturn ==
  /\ run.pc = "p3_drain_enrich"
  /\ \E out \in EnrichOutcomes : Commit(p3_drain_enrich_return(Cur, out))

P3QueriesReturn ==
  /\ run.pc = "p3_queries"
  /\ \E out \in QueryOutcomes : Commit(p3_queries_return(Cur, out))

P3SearchReturn ==
  /\ run.pc = "p3_search"
  /\ \E out \in SearchOutcomes : Commit(p3_search_return(Cur, out))

P3AnalyzeReturn ==
  /\ run.pc = "p3_analyze"
  /\ \E out \in ValidationAnalyzeOutcomes(run.validation_paper_urls[run.url_i]) :
       Commit(p3_analyze_return(Cur, out))

P3ValidateReturn ==
  /\ run.pc = "p3_validate"
  /\ \E out \in ValidateOutcomes : Commit(p3_validate_return(Cur, out))

P3EnrichReturn ==
  /\ run.pc = "p3_enrich"
  /\ \E out \in EnrichOutcomes : Commit(p3_enrich_return(Cur, out))

\* Time passes while a run with a deadline is in progress: first less than
\* 30 seconds remain, then the deadline is reached.
Tick ==
  /\ run.kind = "url"
  /\ run.pc \notin {"idle", "done", "failed"}
  /\ run.time # "late"
  /\ run' = [run EXCEPT !.time = IF @ = "early" THEN "near" ELSE "late"]
  /\ obs' = [obs EXCEPT !.expired_in = IF run.time = "near"
                                       THEN obs.phases[Len(obs.phases)] ELSE @]
  /\ UNCHANGED <<initialized, model, gap_search_queue, potential_gaps_db,
                 final_gaps_list, analyzed_papers_set, analyzed_papers,
                 research_frontier, stats, gaps, response, other>>

Step ==
  \/ SeedReturn
  \/ P2QueriesReturn
  \/ P2SearchReturn
  \/ P2RelatedQueriesReturn
  \/ P2RelatedSearchReturn
  \/ P2AnalyzeReturn
  \/ SkipEnrichReturn
  \/ P3DrainEnrichReturn
  \/ P3QueriesReturn
  \/ P3SearchReturn
  \/ P3AnalyzeReturn
  \/ P3ValidateReturn
  \/ P3EnrichReturn

Next ==
  \/ Initialize
  \/ StartUrl
  \/ StartText
  \/ Step
  \/ Tick

Spec == Init /\ [][Next]_vars

\* A collaborator call in flight returns, with a value or with a failure.
FairSpec == Spec /\ WF_vars(Step)

\* The seed analysis returns; the max_papers that the run passes to phase 2
\* (line 131 for a URL seed, line 282 for a text seed) is put on record.
SeedReturnBudget ==
  /\ run.pc = "seed"
  /\ \E out \in AnalyzeOutcomes(SeedRef) :
       LET s1 == IF run.kind = "url" THEN seed_return_url(Cur, out)
                 ELSE seed_return_text(Cur, out)
           max_papers == IF run.kind = "url"
                         THEN resolve_mode(run.request).max_papers
                         ELSE run.request.max_papers
       IN Bounded(IF out.tag = "ok"
                  THEN [s1 EXCEPT !.obs.budget = max_papers] ELSE s1)

NextBudget ==
  \/ Initialize
  \/ StartUrl
  \/ StartText
  \/ SeedReturnBudget
  \/ P2QueriesReturn
  \/ P2SearchReturn
  \/ P2RelatedQueriesReturn
  \/ P2RelatedSearchReturn
  \/ P2AnalyzeReturn
  \/ SkipEnrichReturn
  \/ P3DrainEnrichReturn
  \/ P3QueriesReturn
  \/ P3SearchReturn
  \/ P3AnalyzeReturn
  \/ P3ValidateReturn
  \/ P3EnrichReturn
  \/ Tick

\* The runs of Spec, with the document budget of each on record.
SpecBudget == Init /\ [][NextBudget]_vars

\* The caller that has received a response sends the next request to the
\* same orchestrator. The attributes set by initialize() and by the earlier
\* run stay as they are: neither entry point resets them (lines 90-113,
\* 239-267). What is recorded about a run starts anew; the synthesis of the
\* run that has ended is kept for comparison.
RunAgain ==
  /\ run.pc \in {"done", "failed"}
  /\ obs.runs < MaxRuns
  /\ Len(gaps) <= MaxCarried
  /\ run' = IdleRun
  /\ response' = NoResponse
  /\ obs' = [NoObs EXCEPT !.runs = obs.runs + 1,
                          !.prev = IF run.pc = "done"
                                   THEN <<[stats |-> stats,
                                           final_gaps_list |-> final_gaps_list,
                                           response |-> response]>>
                                   ELSE <<>>]
  /\ UNCHANGED <<initialized, model, gap_search_queue, potential_gaps_db,
                 final_gaps_list, analyzed_papers_set, analyzed_papers,
                 research_frontier, stats, gaps, other>>

NextReuse ==
  \/ Next
  \/ RunAgain

\* An orchestrator that serves several runs, one after the other.
SpecReuse == Init /\ [][NextReuse]_vars

\* _extract_gaps_from_paper applied to a document, on an orchestrator that
\* runs nothing; the document and the pending store and the counter it
\* found are recorded.
ExtractGaps ==
  /\ initialized
  /\ run.pc = "idle"
  /\ \E url \in Refs : \E paper \in Papers(url) :
       Bounded([extract_gaps_from_paper(Cur, paper) EXCEPT
                  !.obs.extracted =
                     <<[paper |-> paper,
                        pending |-> potential_gaps_db,
                        discovered |-> stats.gaps_discovered]>>])

NextExtract ==
  \/ Initialize
  \/ ExtractGaps

\* An orchestrator on which documents are extracted one after the other.
SpecExtract == Init /\ [][NextExtract]_vars

\* The caller that has received the response of a text-seeded run sends a
\* light URL request to the same orchestrator, which still holds the queue
\* the text-seeded run has left (line 277; neither entry point resets it).
FastAfterText ==
  /\ run.pc = "done"
  /\ run.kind = "text"
  /\ obs.runs < MaxRuns
  /\ gap_search_queue # <<>>
  /\ \E request \in {r \in Requests : r.analysis_mode = "light"} :
       Commit(start_url([Cur EXCEPT !.obs.runs = @ + 1], request))

\* The segments of a run whose deadline stays far.
StepFarFromDeadline ==
  \/ SeedReturn
  \/ P2QueriesReturn
  \/ P2SearchReturn
  \/ P2RelatedQueriesReturn
  \/ P2RelatedSearchReturn
  \/ P2AnalyzeReturn
  \/ P3QueriesReturn
  \/ P3SearchReturn
  \/ P3AnalyzeReturn
  \/ P3ValidateReturn
  \/ P3EnrichReturn

NextQueued ==
  \/ Initialize
  \/ StartText
  \/ StepFarFromDeadline
  \/ FastAfterText

\* A text-seeded run followed by a light URL-seeded run on the same
\* orchestrator: the one way in which the expansion of a light run finds a
\* queue that is not empty.
SpecQueued == Init /\ [][NextQueued]_vars

\* The requests of the two entry points, the document budget asked for
\* going up to MaxWidePapers.  analyze_research_gaps_from_text has no mode:
\* it passes "deep" to phase 2 and its own validation_threshold to phase 3.
WideRequests ==
  [kind : {"url"}, analysis_mode : {"light", "deep"},
   max_papers : 1 .. MaxWidePapers, validation_threshold : 0 .. MaxThreshold]
  \cup
  [kind : {"text"}, analysis_mode : {"deep"},
   max_papers : 1 .. MaxWidePapers, validation_threshold : 0 .. MaxThreshold]

\* The limits a run works with: lines 118-126 and then 398-411 for a URL
\* request, lines 282 and 286 and then 398-411 for a text request.
resolved_limits(request) ==
  LET adjusted == IF request.kind = "url" THEN resolve_mode(request)
                  ELSE [max_papers |-> request.max_papers,
                        validation_threshold |-> request.validation_threshold]
      mode == IF request.kind = "url" THEN request.analysis_mode ELSE "deep"
      limits == phase_2_limits(adjusted.max_papers, mode)
  IN [request |-> request,
      max_papers |-> limits.max_papers,
      max_gaps_limit |-> limits.max_gaps_limit,
      validation_threshold |-> adjusted.validation_threshold]

\* The limits of a request are derived, on an orchestrator that runs
\* nothing, and recorded.
ResolveModes ==
  /\ initialized
  /\ run.pc = "idle"
  /\ \E request \in WideRequests :
       obs' = [obs EXCEPT !.resolved = <<resolved_limits(request)>>]
  /\ UNCHANGED <<initialized, model, gap_search_queue, potential_gaps_db,
                 final_gaps_list, analyzed_papers_set, analyzed_papers,
                 research_frontier, stats, gaps, run, response, other>>

NextModes ==
  \/ Initialize
  \/ ResolveModes

\* An orchestrator on which the limits of requests are derived.
SpecModes == Init /\ [][NextModes]_vars

\* round(a / b): the integer nearest to a / b, the even one of two equally
\* near.  The quotients taken here have no such tie, so that the rounding of
\* the binary fraction and the rounding of the exact quotient agree.
round_div(a, b) ==
  LET q == a \div b
      r == a % b
  IN IF 2 * r < b THEN q
     ELSE IF 2 * r > b THEN q + 1
     ELSE IF q % 2 = 0 THEN q ELSE q + 1

\* The rate metrics of ResearchFrontierStats (lines 745-748).  The velocity
\* and the discovery rate are in hundredths (round(x, 2)), the effectiveness
\* and the coverage in tenths (round(x, 1)); seconds is processing_time.
research_velocity(papers, seconds) == round_div(papers * 60 * 100, seconds)
gap_discovery_rate(discovered, papers) ==
  round_div(discovered * 100, Max(1, papers))
elimination_effectiveness(eliminated, discovered) ==
  round_div(eliminated * 100 * 10, Max(1, discovered))
frontier_coverage(papers) == Min(850, 200 + papers * 80)

\* Counters of a finished run: documents analyzed, gaps discovered, gaps
\* eliminated (no more than were discovered) and the seconds the run took.
MetricPapers == {0, 1, 2, MaxMetricPapers}
MetricGaps == {0, 1, 2, MaxMetricGaps}
MetricSeconds == {1, 60, 900}
MetricInputs ==
  {c \in [papers : MetricPapers, discovered : MetricGaps,
          eliminated : MetricGaps, seconds : MetricSeconds] :
     c.eliminated <= c.discovered}

rate_metrics(c) ==
  [research_velocity |-> research_velocity(c.papers, c.seconds),
   gap_discovery_rate |-> gap_discovery_rate(c.discovered, c.papers),
   elimination_effectiveness |->
     elimination_effectiveness(c.eliminated, c.discovered),
   frontier_coverage |-> frontier_coverage(c.papers)]

\* The rate metrics of a set of counters are computed, on an orchestrator
\* that runs nothing, and recorded with the counters.
ComputeMetrics ==
  /\ initialized
  /\ run.pc = "idle"
  /\ \E c \in MetricInputs :
       obs' = [obs EXCEPT !.metrics = <<[counters |-> c,
                                        rates |-> rate_metrics(c)]>>]
  /\ UNCHANGED <<initialized, model, gap_search_queue, potential_gaps_db,
                 final_gaps_list, analyzed_papers_set, analyzed_papers,
                 research_frontier, stats, gaps, run, response, other>>

NextMetrics ==
  \/ Initialize
  \/ ComputeMetrics

\* An orchestrator on which the rate metrics of counters are computed.
SpecMetrics == Init /\ [][NextMetrics]_vars

\* The event loop: while the running coroutine awaits its call, the other
\* coroutine of the same orchestrator is resumed, or, its slot being idle, a
\* further request can be started there.  The attributes of the orchestrator
\* belong to both (lines 70-86 create them on self).
Switch ==
  /\ initialized
  /\ run.pc # "idle"
  /\ other.switches < MaxSwitches
  /\ obs.calls <= MaxHeadStart
  /\ run' = other.run
  /\ obs' = other.obs
  /\ response' = other.response
  /\ other' = [run |-> run, obs |-> obs, response |-> response,
               switches |-> other.switches + 1]
  /\ UNCHANGED <<initialized, model, gap_search_queue, potential_gaps_db,
                 final_gaps_list, analyzed_papers_set, analyzed_papers,
                 research_frontier, stats, gaps>>

\* The steps of URL-seeded runs that end before their deadline: the queue
\* of such a run is empty (_phase_1_seeding does not fill it), so phase 2
\* issues no call, and the drain of phase 3 is not entered.
StepBeforeDeadline ==
  \/ SeedReturn
  \/ SkipEnrichReturn
  \/ P3QueriesReturn
  \/ P3SearchReturn
  \/ P3AnalyzeReturn
  \/ P3ValidateReturn
  \/ P3EnrichReturn

NextShared ==
  \/ Initialize
  \/ StartUrl
  \/ StepBeforeDeadline
  \/ Switch

\* An orchestrator that serves two URL-seeded runs at the same time.
SpecShared == Init /\ [][NextShared]_vars

\* Seed documents with up to MaxLateStatements limitations.
LatePapers ==
  [url : {SeedRef}, limitations : SeqsUpTo(Statements, MaxLateStatements),
   future_work : {<<>>}]

\* The seed analysis of a URL run returns a document when the deadline has
\* already been reached: phase 2 finds its queue empty and line 134 finds
\* the deadline expired.
SeedReturnLate ==
  /\ run.pc = "seed"
  /\ run.kind = "url"
  /\ run.time = "late"
  /\ \E paper \in LatePapers : Commit(seed_return_url(Cur, Ok(paper)))

NextLate ==
  \/ Initialize
  \/ StartUrl
  \/ Tick
  \/ SeedReturnLate
  \/ SkipEnrichReturn

\* The runs whose deadline expires during the seed analysis.
SpecLate == Init /\ [][NextLate]_vars

\* A text-seeded run whose budget lets EXPANDING go on after a document has
\* been analyzed; its threshold of 0 leaves nothing to VALIDATING.
FrontierRequests ==
  [analysis_mode : {"deep"}, max_papers : {MaxFrontierPapers},
   validation_threshold : {0}]

StartFrontier ==
  /\ initialized
  /\ run.pc = "idle"
  /\ \E request \in FrontierRequests : Commit(start_text(Cur, request))

\* The documents are such that no more than MaxFrontierGaps gaps come to exist.
WithinFrontier(s0) ==
  \E s \in {s0} : Len(s.gaps) <= MaxFrontierGaps /\ Commit(s)

SeedReturnFrontier ==
  /\ run.pc = "seed"
  /\ \E out \in AnalyzeOutcomes(SeedRef) :
       WithinFrontier(seed_return_text(Cur, out))

P2AnalyzeReturnFrontier ==
  /\ run.pc = "p2_analyze"
  /\ \E out \in AnalyzeOutcomes(run.all_discovered_papers[run.paper_i]) :
       WithinFrontier(p2_analyze_return(Cur, out))

NextFrontier ==
  \/ Initialize
  \/ StartFrontier
  \/ SeedReturnFrontier
  \/ P2QueriesReturn
  \/ P2SearchReturn
  \/ P2RelatedQueriesReturn
  \/ P2RelatedSearchReturn
  \/ P2AnalyzeReturnFrontier

\* The runs in which EXPANDING explores gaps it has itself discovered.
SpecFrontier == Init /\ [][NextFrontier]_vars

\* The seed analysis of a URL run returns, on an orchestrator that may hold
\* up to MaxFrontierGaps gaps.
SeedReturnCut ==
  /\ run.pc = "seed"
  /\ run.kind = "url"
  /\ \E out \in AnalyzeOutcomes(SeedRef) :
       WithinFrontier(seed_return_url(Cur, out))

\* A text-seeded run whose threshold of 0 leaves nothing to VALIDATING.  With
\* a budget of one document, used up by the seed, the gaps of the seed stay
\* in the queue and in the pending store; with a larger one the run explores
\* gaps in deep mode.
CutRequests ==
  [analysis_mode : {"deep"}, max_papers : 1 .. MaxPapers,
   validation_threshold : {0}]

StartCut ==
  /\ initialized
  /\ run.pc = "idle"
  /\ \E request \in CutRequests : Commit(start_text(Cur, request))

\* Seed texts with up to MaxFrontierGaps limitations, each of them long
\* enough to make a gap.
CutPapers ==
  [url : {SeedRef},
   limitations : SeqsUpTo({st \in Statements : len(strip(st)) > MinStatementLen},
                          MaxFrontierGaps),
   future_work : {<<>>}]

SeedReturnCutText ==
  /\ run.pc = "seed"
  /\ run.kind = "text"
  /\ \E out \in {None, Raise} \cup {Ok(p) : p \in CutPapers} :
       WithinFrontier(seed_return_text(Cur, out))

NextCut ==
  \/ Initialize
  \/ StartCut
  \/ SeedReturnCutText
  \/ FastAfterText
  \/ SeedReturnCut
  \/ P2QueriesReturn
  \/ P2SearchReturn
  \/ P2RelatedQueriesReturn
  \/ P2RelatedSearchReturn
  \/ P2AnalyzeReturnFrontier
  \/ P3QueriesReturn
  \/ P3SearchReturn
  \/ P3AnalyzeReturn
  \/ P3ValidateReturn
  \/ P3EnrichReturn

\* A text-seeded deep run that leaves up to MaxFrontierGaps gaps in the
\* queue, then a light URL run on the same orchestrator: its EXPANDING cuts
\* the queue it finds to its first two gaps.
SpecCut == Init /\ [][NextCut]_vars

\* URL-seeded deep runs whose budget of one document is used up by the seed:
\* EXPANDING explores nothing and the gaps of the seed go to VALIDATING,
\* where one strike does not reach the threshold.
DrainRequests ==
  [analysis_mode : {"deep"}, max_papers : {1}, validation_threshold : {2}]

StartDrain ==
  /\ initialized
  /\ run.pc = "idle"
  /\ \E request \in DrainRequests : Commit(start_url(Cur, request))

\* Seed documents with up to MaxDrainStatements limitations, each of them
\* long enough to make a gap.
DrainPapers ==
  [url : {SeedRef},
   limitations : SeqsUpTo({st \in Statements : len(strip(st)) > MinStatementLen},
                          MaxDrainStatements),
   future_work : {<<>>}]

\* The seed analysis of a URL run returns a document, before the deadline or
\* after it.
SeedReturnMany ==
  /\ run.pc = "seed"
  /\ run.kind = "url"
  /\ \E paper \in DrainPapers : Commit(seed_return_url(Cur, Ok(paper)))

\* The search backend finds no validation document, or fails.
P3SearchReturnNothing ==
  /\ run.pc = "p3_search"
  /\ \E out \in {Raise, Ok(<<>>)} : Commit(p3_search_return(Cur, out))

NextDrain ==
  \/ Initialize
  \/ StartDrain
  \/ Tick
  \/ SeedReturnMany
  \/ SkipEnrichReturn
  \/ P3QueriesReturn
  \/ P3SearchReturnNothing
  \/ P3DrainEnrichReturn

\* The runs whose VALIDATING has up to MaxDrainStatements gaps to go through
\* when the deadline is reached.
SpecDrain == Init /\ [][NextDrain]_vars

(***************************************************************************)
(* Properties.                                                             *)
(***************************************************************************)
FinalIds == {final_gaps_list[i].gap_id : i \in DOMAIN final_gaps_list}
PendingIds == Range(potential_gaps_db)
QueueIds == Range(gap_search_queue)
Finished == run.pc \in {"done", "failed"}

\* C1: in a run no reference is passed to the Document Analyzer more than
\* once, failed analyses included.
C1_EachRefAnalyzedAtMostOnce == ~obs.analyzed_again

\* C2: no gap id is in the pending store and in the final list at once.
C2_PendingFinalDisjoint == PendingIds \cap FinalIds = {}

StrikesNeverDecrease ==
  \A g \in DOMAIN gaps :
    g \in DOMAIN gaps' /\ gaps'[g].validation_strikes >= gaps[g].validation_strikes

NoDoubleGraduation ==
  \A i, j \in DOMAIN final_gaps_list :
    final_gaps_list[i].gap_id = final_gaps_list[j].gap_id => i = j

GraduationOnlyAtThreshold == \A m \in obs.moves : m.strikes = obs.threshold

GraduationAtThresholdOrDeadline ==
  \A m \in obs.moves :
    \/ m.strikes = obs.threshold
    \/ m.strikes < obs.threshold /\ run.kind = "url" /\ run.time = "late"

\* C3 as claimed: strikes never decrease, and a gap enters the final list
\* once, and only with its strike count equal to the validation threshold.
C3_GraduationOnlyAtThreshold ==
  [][StrikesNeverDecrease /\ NoDoubleGraduation' /\ GraduationOnlyAtThreshold']_vars

\* C3 as amended: strikes never decrease, no gap enters the final list
\* twice, and a gap enters it with its strike count equal to the validation
\* threshold or, once the deadline has been reached, with a lower one.
C3_GraduationAtThresholdOrDeadline ==
  [][StrikesNeverDecrease /\ NoDoubleGraduation'
       /\ GraduationAtThresholdOrDeadline']_vars

\* one gap has graduated on its threshold strike, another was drained with
\* fewer strikes
C3_Witness ==
  \E m1, m2 \in obs.moves :
    /\ m1.via = "threshold" /\ m1.strikes = obs.threshold
    /\ m2.via = "drain" /\ m2.strikes < obs.threshold

\* C4: the exploration queue holds no gap whose id is in the final list.
C4_QueueFinalDisjoint == QueueIds \cap FinalIds = {}

\* C5: when the deadline was reached during VALIDATING, every gap that
\* phase set out to validate and that was not eliminated ends the run in the
\* final list or in the pending store.
C5_DeadlineSafety ==
  (run.pc = "done" /\ obs.expired_in = "VALIDATING")
    => \A g \in obs.eligible :
         g \in obs.eliminated \/ g \in FinalIds \/ g \in PendingIds

\* a run whose deadline was reached during VALIDATING has ended with one
\* eligible gap drained into the final list and another eliminated
C5_Witness ==
  /\ run.pc = "done" /\ obs.expired_in = "VALIDATING"
  /\ \E g1, g2 \in obs.eligible :
       /\ g1 \in FinalIds /\ g1 \notin PendingIds
       /\ \E m \in obs.moves : m.gap_id = g1 /\ m.via = "drain"
       /\ g2 \in obs.eliminated

\* C6: no collaborator call is issued at or after the run's deadline.
C6_NoCallAfterDeadline == ~obs.late_call

\* C7: a run whose collaborator calls all return ends in DONE or FAILED
\* with a response.
C7_RunTerminates ==
  (run.pc # "idle") ~> (Finished /\ response.kind \in {"ok", "error"})

\* a run has ended after an expansion in which a newly analyzed document's
\* gaps were enqueued
C7_Witness == run.pc = "done" /\ stats.frontier_expansions > 0

PhaseOrders ==
  {SubSeq(<<"SEEDING", "EXPANDING", "VALIDATING", "SYNTHESIZING", "DONE">>, 1, n) :
     n \in 0 .. 5} \cup {<<"SEEDING", "FAILED">>}

PhasesInOrder ==
  /\ obs.phases \in PhaseOrders
  /\ run.pc = "done" <=> (obs.phases # <<>> /\ obs.phases[Len(obs.phases)] = "DONE")
  /\ run.pc = "failed"
       <=> (obs.phases # <<>> /\ obs.phases[Len(obs.phases)] = "FAILED")

\* C8: the phases of a run are entered in the order SEEDING, EXPANDING,
\* VALIDATING, SYNTHESIZING and then DONE, or end in FAILED, none is entered
\* twice, and nothing happens after DONE or FAILED.
C8_PhasesInOrder == [][~Finished /\ PhasesInOrder']_vars

\* a run has gone through every phase
C8_Witness ==
  obs.phases = <<"SEEDING", "EXPANDING", "VALIDATING", "SYNTHESIZING", "DONE">>

\* C9: a run ends in FAILED only if the seed analysis failed; the failure of
\* another collaborator call does not.
C9_FailedOnlySeed == run.pc = "failed" => obs.seed_failed

\* a run in which another collaborator call failed has ended in DONE
C9_Witness == run.pc = "done" /\ obs.call_failed /\ ~obs.seed_failed

\* C10: when the seed analysis fails, the caller receives a response that
\* reports no gap discovered, no paper analyzed, no validated gap and a
\* narrative of the failure, whatever the orchestrator did before.
C10_SeedFailureResponse ==
  (run.pc = "failed" /\ obs.seed_failed)
    => /\ response.kind = "error"
       /\ response.gaps_discovered = 0
       /\ response.total_papers_analyzed = 0
       /\ response.validated_gaps = <<>>
       /\ response.frontier_overview # ""

\* C11: when a run starts, also a further run on an orchestrator that has
\* served one, the pending store, the final list, the queue, the processed
\* set, the explored areas and the counters are empty or zero.
C11_FreshStateAtStart ==
  run.pc = "seed"
    => /\ potential_gaps_db = <<>>
       /\ final_gaps_list = <<>>
       /\ gap_search_queue = <<>>
       /\ analyzed_papers_set = {}
       /\ research_frontier = {}
       /\ stats = ZeroStats

\* C12: of two runs in progress at the same time, neither has the gaps or
\* the counts of the other in its response.
C12_RunsIsolated ==
  run.pc = "done"
    => /\ \A i \in DOMAIN response.validated_gaps :
            response.validated_gaps[i].gap_id \in obs.own
       /\ response.gaps_discovered = Cardinality(obs.own)

Meaningful(st) == len(strip(st)) > 20

ExpectedGaps(paper, first_id) ==
  LET lims == SelectSeq(paper.limitations, Meaningful)
      fws == SelectSeq(paper.future_work, Meaningful)
  IN [i \in 1 .. Len(lims) + Len(fws) |->
        [gap_id |-> first_id + i - 1,
         description |-> strip(IF i <= Len(lims) THEN lims[i]
                               ELSE fws[i - Len(lims)]),
         category |-> IF i <= Len(lims) THEN "Limitation" ELSE "Future Work",
         validation_strikes |-> 0]]

\* C13: extracting the gaps of a document appends to the pending store one
\* gap for each limitation and then for each future-work statement whose
\* trimmed length is greater than 20, in document order, tagged Limitation
\* or Future Work, with no strike, and raises the discovered counter by
\* their number; a statement of trimmed length 20 or less adds nothing.
C13_ExtractGaps ==
  obs.extracted # <<>>
    => LET e == obs.extracted[1]
           n == Len(potential_gaps_db) - Len(e.pending)
           new == [i \in 1 .. n |->
                     gaps[potential_gaps_db[Len(e.pending) + i]]]
       IN /\ n >= 0
          /\ SubSeq(potential_gaps_db, 1, Len(e.pending)) = e.pending
          /\ n > 0 => new = ExpectedGaps(e.paper, new[1].gap_id)
          /\ n = Len(ExpectedGaps(e.paper, 1))
          /\ stats.gaps_discovered = e.discovered + n
          /\ \A i, j \in 1 .. n : new[i].gap_id = new[j].gap_id => i = j

\* a document with a limitation of trimmed length 20, which is dropped, and
\* a future-work statement of trimmed length 21, which becomes a gap, has
\* been extracted after another document
C13_Witness ==
  /\ obs.extracted # <<>>
  /\ obs.extracted[1].pending # <<>>
  /\ Len(potential_gaps_db) = Len(obs.extracted[1].pending) + 1
  /\ \E i \in DOMAIN obs.extracted[1].paper.limitations :
       ~Meaningful(obs.extracted[1].paper.limitations[i])
  /\ \E i \in DOMAIN obs.extracted[1].paper.future_work :
       Meaningful(obs.extracted[1].paper.future_work[i])

\* C14: when the seed analysis has succeeded, the queue holds at entry to
\* EXPANDING the gaps extracted from the seed document, all of them and in
\* extraction order.
C14_QueueSeeded ==
  obs.entry # <<>> => obs.entry[1].queue = obs.seed_gaps

FinalIdSeq == [i \in DOMAIN final_gaps_list |-> final_gaps_list[i].gap_id]

\* A finished first run of the URL entry point in light mode in which the
\* validator reported no gap invalidated.
FastRunNothingInvalidated ==
  /\ run.pc = "done"
  /\ run.kind = "url"
  /\ obs.mode = "light"
  /\ obs.judged = {}

\* C15: in light mode (threshold 1), when the seed yields n gaps and the
\* validator never reports a gap invalidated, the run ends with exactly n
\* validated gaps in the final list, one per seed gap, and with the
\* eliminated counter equal to 0.
C15_FastAllValidated ==
  FastRunNothingInvalidated =>
    /\ obs.threshold = 1
    /\ Len(final_gaps_list) = Len(obs.seed_gaps)
    /\ FinalIds = Range(obs.seed_gaps)
    /\ stats.gaps_eliminated = 0

\* C15, amended: the final list then holds, in seed order, one validated gap
\* for every seed gap whose validation was not abandoned after a failed
\* search or analysis call (an abandoned gap stays pending with no strike),
\* so exactly n when no validation was abandoned; when the deadline had
\* expired before VALIDATING began it holds the first 5 seed gaps; the
\* eliminated counter is 0.
C15_FastValidatedUnlessAbandoned ==
  FastRunNothingInvalidated =>
    /\ obs.threshold = 1
    /\ FinalIdSeq =
         IF \E m \in obs.moves : m.via = "skip"
         THEN Take(obs.seed_gaps, SkipEnrichCap)
         ELSE SelectSeq(obs.seed_gaps, LAMBDA g : g \notin obs.abandoned)
    /\ \A g \in obs.abandoned :
         g \in PendingIds /\ gaps[g].validation_strikes = 0
    /\ stats.gaps_eliminated = 0
    /\ response.gaps_eliminated = 0

\* A light run over two seed gaps: the validation of one was abandoned, the
\* other was validated and is in the final list.
C15_Witness ==
  /\ FastRunNothingInvalidated
  /\ Len(obs.seed_gaps) = 2
  /\ Cardinality(obs.abandoned) = 1
  /\ Len(final_gaps_list) = 1
  /\ \E m \in obs.moves : m.via = "threshold"

\* The step in which the validator reports gap g invalidated: g leaves the
\* pending store, keeps its strikes, and the counters move by one
\* elimination and no validation attempt.
EliminationStep ==
  \A g \in obs'.judged \ obs.judged :
    /\ g \in PendingIds
    /\ g \notin Range(potential_gaps_db')
    /\ gaps'[g].validation_strikes = gaps[g].validation_strikes
    /\ stats'.validation_attempts = stats.validation_attempts
    /\ stats'.gaps_eliminated = stats.gaps_eliminated + 1

\* A gap the validator has reported invalidated is in neither store.
InvalidatedGone ==
  \A g \in obs.judged : g \notin PendingIds /\ g \notin FinalIds

\* The end of a run whose only gap is a seed gap reported invalidated.
SingleInvalidatedEnd ==
  (/\ run.pc = "done"
   /\ Len(obs.seed_gaps) = 1
   /\ obs.own = Range(obs.seed_gaps)
   /\ obs.judged = Range(obs.seed_gaps))
  => /\ potential_gaps_db = <<>>
     /\ final_gaps_list = <<>>
     /\ stats.gaps_eliminated = 1
     /\ response.gaps_eliminated = 1
     /\ response.validated_gaps = <<>>

\* C16: a gap that the validator reports invalidated on its validation
\* attempt is removed from the pending store, never enters the final list,
\* receives no strike and no validation-attempt count, and raises the
\* eliminated counter by exactly 1; with a single such seed gap the run ends
\* with the pending store empty, the final list empty and eliminated = 1.
C16_Elimination ==
  /\ [][EliminationStep]_vars
  /\ [](InvalidatedGone /\ SingleInvalidatedEnd)

\* Scenario B has ended: a deep run with threshold 2 whose single seed gap was
\* reported invalidated.
C16_Witness ==
  /\ run.pc = "done"
  /\ obs.mode = "deep"
  /\ obs.threshold = 2
  /\ Len(obs.seed_gaps) = 1
  /\ obs.own = Range(obs.seed_gaps)
  /\ obs.judged = Range(obs.seed_gaps)
  /\ stats.gaps_eliminated = 1

\* A validated gap built by _quick_gap_enrichment has its fields filled.
QuickFilled(vg) ==
  /\ vg.gap_title.core > 0
  /\ vg.description.core > 0
  /\ vg.validation_evidence # ""
  /\ vg.potential_impact # ""
  /\ vg.suggested_approaches # <<>>
  /\ vg.category # ""
  /\ vg.innovation_potential \in 600 .. 900
  /\ vg.confidence_score = 75
  /\ vg.validation_attempts = 0

\* C17: if the deadline has already expired when VALIDATING would begin and
\* the pending store holds n gaps, no validation attempt is made and the run
\* ends with a final list of exactly min(n, 5) validated gaps, the first of
\* the pending store, each with every enrichment field filled even when the
\* validator's enrichment fails or returns nothing.
C17_SkipEnrichesFirstFive ==
  (run.pc = "done" /\ obs.expired_in = "SEEDING") =>
    LET n == Len(obs.entry[1].pending) IN
    /\ potential_gaps_db = obs.entry[1].pending
    /\ Len(final_gaps_list) = Min(n, 5)
    /\ FinalIdSeq = Take(potential_gaps_db, 5)
    /\ \A i \in DOMAIN final_gaps_list :
         final_gaps_list[i].quick => QuickFilled(final_gaps_list[i])
    /\ stats.validation_attempts = 0
    /\ \A g \in DOMAIN gaps : gaps[g].validation_strikes = 0
    /\ obs.eligible = {} /\ obs.judged = {}
    /\ response.validated_gaps = final_gaps_list

\* Six gaps were pending when the deadline had expired; five are in the
\* final list, one of them enriched by the fallback.
C17_Witness ==
  /\ run.pc = "done"
  /\ obs.expired_in = "SEEDING"
  /\ Len(potential_gaps_db) = 6
  /\ Len(final_gaps_list) = 5
  /\ \E i \in DOMAIN final_gaps_list : final_gaps_list[i].quick
  /\ \E i \in DOMAIN final_gaps_list : ~final_gaps_list[i].quick

\* C18: two executions of synthesis that start from identical run counters
\* and an identical final validated-gap list produce identical output; the
\* output depends on nothing else (not on the clock, not on the
\* analyzed-document list or the explored-areas set).
C18_SynthesisDeterminism ==
  (/\ run.pc = "done"
   /\ obs.prev # <<>>
   /\ obs.prev[1].stats = stats
   /\ obs.prev[1].final_gaps_list = final_gaps_list)
  => response = obs.prev[1].response

\* C19: in deep mode, when the deadline does not expire, a gap discovered
\* during the run and never judged invalidated has reached the validation
\* threshold and is in the final list when the run ends, for every requested
\* threshold k >= 1.
C19_SurvivorsGraduate ==
  (/\ run.pc = "done"
   /\ obs.mode = "deep"
   /\ obs.threshold >= 1
   /\ run.time # "late")
  => \A g \in obs.own \ obs.judged :
       g \in FinalIds /\ gaps[g].validation_strikes >= obs.threshold

\* The run awaits a call of EXPANDING.
Expanding ==
  run.pc \in {"p2_queries", "p2_search", "p2_related_queries",
              "p2_related_search", "p2_analyze"}

IsSuffix(q, r) ==
  Len(q) <= Len(r) /\ q = SubSeq(r, Len(r) - Len(q) + 1, Len(r))

\* q is a run of consecutive elements of r
IsPart(q, r) ==
  \E i \in 1 .. Len(r) + 1 : \E j \in i - 1 .. Len(r) : q = SubSeq(r, i, j)

\* Inside the EXPANDING of a light run: no related-area search is awaited,
\* and the pending store and the two counters are those of the entry; the
\* queue is a part of the queue of the entry (the entry cuts it to its first
\* two gaps, the explorations take its head).
LightExpandingFrame ==
  (Expanding /\ run.analysis_mode = "light") =>
    /\ run.pc \notin {"p2_related_queries", "p2_related_search"}
    /\ potential_gaps_db = obs.entry[1].pending
    /\ stats.gaps_discovered = obs.entry[1].stats.gaps_discovered
    /\ stats.frontier_expansions = obs.entry[1].stats.frontier_expansions
    /\ IsPart(gap_search_queue, obs.entry[1].queue)

\* A step of the EXPANDING of a light run, the one that leaves the phase
\* included.
LightExpandingStep ==
  (Expanding /\ run.analysis_mode = "light") =>
    /\ potential_gaps_db' = potential_gaps_db
    /\ gaps' = gaps
    /\ stats'.gaps_discovered = stats.gaps_discovered
    /\ stats'.frontier_expansions = stats.frontier_expansions
    /\ IsSuffix(gap_search_queue', gap_search_queue)

\* The step of the EXPANDING of a deep run in which a document has been
\* analyzed: its gaps, if any, are at the end of the pending store and of the
\* queue (whose head the same step takes when it goes on to the next
\* exploration), and the frontier-expansion counter is one higher.
DeepExpandingStep ==
  (/\ run.pc = "p2_analyze"
   /\ run.analysis_mode = "deep"
   /\ Len(analyzed_papers') > Len(analyzed_papers))
  => LET new_gaps == [i \in 1 .. Len(gaps') - Len(gaps) |-> Len(gaps) + i]
         queued == gap_search_queue \o new_gaps
     IN /\ potential_gaps_db' = potential_gaps_db \o new_gaps
        /\ \/ gap_search_queue' = queued
           \/ /\ queued # <<>>
              /\ gap_search_queue' = Tail(queued)
              /\ run'.pc = "p2_queries"
              /\ run'.current_gap = Head(queued)
        /\ stats'.gaps_discovered = stats.gaps_discovered + Len(new_gaps)
        /\ stats'.frontier_expansions =
              stats.frontier_expansions + (IF new_gaps # <<>> THEN 1 ELSE 0)

\* C20: in light mode EXPANDING performs no related-area search and no
\* new-gap extraction: from entry to exit of the phase the pending store, the
\* discovered counter and the frontier-expansion counter are unchanged and
\* nothing is appended to the queue; in deep mode every newly analyzed
\* document that yields at least one gap has its gaps appended to both the
\* pending store and the queue and raises the frontier-expansion counter by 1.
C20_ExpandingFrame ==
  /\ []LightExpandingFrame
  /\ [][LightExpandingStep /\ DeepExpandingStep]_vars

\* A light run awaits in its EXPANDING the analysis of a document, on an
\* orchestrator on which a deep run had analyzed a document that yielded a
\* gap and left it in the queue.
C20_Witness ==
  /\ run.pc = "p2_analyze"
  /\ run.analysis_mode = "light"
  /\ obs.entry[1].queue # <<>>
  /\ obs.entry[1].stats.frontier_expansions > 0

\* C21: in light mode the document budget applied by EXPANDING is
\* min(requested max_papers, 4) and the validation threshold is 1 whatever was
\* requested; in deep mode the budget and the threshold are the requested
\* values.
C21_ModeParameters ==
  obs.resolved # <<>> =>
    LET r == obs.resolved[1] IN
    IF r.request.analysis_mode = "light"
    THEN /\ r.max_papers = Min(r.request.max_papers, 4)
         /\ r.validation_threshold = 1
    ELSE /\ r.max_papers = r.request.max_papers
         /\ r.validation_threshold = r.request.validation_threshold

\* Inside EXPANDING: the gaps popped are within the cap, the documents
\* analyzed (the seed counts) within the budget, and a gap is being explored
\* or a document awaited only with budget left.
ExpandingWithinLimits ==
  Expanding =>
    /\ run.max_gaps_limit =
         (IF run.analysis_mode = "light" THEN 2 ELSE run.max_papers)
    /\ run.gaps_processed \in 1 .. run.max_gaps_limit
    /\ run.papers_analyzed = Len(analyzed_papers)
    /\ run.papers_analyzed <= Max(1, run.max_papers)
    /\ run.pc \in {"p2_queries", "p2_analyze"} =>
         run.papers_analyzed < run.max_papers

\* A step of EXPANDING, the one that leaves the phase included: a gap is
\* popped only below the cap and with budget left, and the documents
\* analyzed stay within max(1, max_papers).
ExpandingStepWithinLimits ==
  Expanding =>
    /\ Len(analyzed_papers') <= Max(1, run.max_papers)
    /\ (Expanding' /\ run'.gaps_processed # run.gaps_processed) =>
         /\ run'.gaps_processed = run.gaps_processed + 1
         /\ run.gaps_processed < run.max_gaps_limit
         /\ Len(analyzed_papers') < run.max_papers

ExpandingGoesOn ==
  Expanding =>
    /\ run'.pc # "failed"
    /\ Len(potential_gaps_db) <= Len(potential_gaps_db')
    /\ SubSeq(potential_gaps_db', 1, Len(potential_gaps_db)) = potential_gaps_db
    /\ \A g \in DOMAIN gaps :
         gaps'[g].validation_strikes = gaps[g].validation_strikes
    /\ ~Expanding' =>
         \/ gap_search_queue' = <<>>
         \/ Len(analyzed_papers') >= run.max_papers
         \/ run.gaps_processed >= run.max_gaps_limit
         \/ (run.kind = "url" /\ run.time = "late")

\* C23: when a collaborator call raises while one gap is being explored in
\* EXPANDING, the phase is not aborted: the gap stays in the pending store
\* with its strikes unchanged, and the loop goes on to the next queued gap
\* whenever the loop conditions (queue non-empty, budget, cap, deadline)
\* still hold.
C23_ExpandingSurvivesFailure == [][ExpandingGoesOn]_vars

\* The second gap of the queue is being explored after the exploration of
\* the first was left by the except of line 481: no document was analyzed
\* and no topic recorded for it.
C23_Witness ==
  /\ Expanding
  /\ run.gaps_processed = 2
  /\ obs.call_failed
  /\ stats.research_areas_explored = 0
  /\ Len(potential_gaps_db) = 2

\* A step that ends an analyze_paper call of EXPANDING or VALIDATING without
\* a document: the analyzer returned nothing or raised.
AnalyzeFailedStep ==
  /\ run.pc \in {"p2_analyze", "p3_analyze"}
  /\ run'.time = run.time
  /\ run' # run
  /\ analyzed_papers' = analyzed_papers

\* After the failed document the same gap is still being processed: its
\* next candidate is being analyzed, or its processing has reached the topic
\* label (EXPANDING), the validator's judgment or the strike (VALIDATING).
GapProcessingContinues ==
  IF run.pc = "p2_analyze"
  THEN \/ run'.pc = "p2_analyze" /\ run'.gaps_processed = run.gaps_processed
       \/ stats'.research_areas_explored > stats.research_areas_explored
  ELSE LET g == run.gaps_to_validate[run.gap_i] IN
       \/ run'.pc \in {"p3_analyze", "p3_validate"} /\ run'.gap_i = run.gap_i
       \/ gaps'[g].validation_strikes = gaps[g].validation_strikes + 1

\* C24: when one document fails to analyze during EXPANDING or VALIDATING
\* (the analyzer returns nothing or raises), only that document is skipped:
\* the remaining candidate documents of the same gap are still considered
\* and the gap's processing continues (topic label recorded in EXPANDING,
\* validation judgment or strike in VALIDATING).
C24_OnlyDocumentSkipped == [][AnalyzeFailedStep => GapProcessingContinues]_vars

\* The gaps a step has created, in the order of their creation.
NewGaps == [i \in 1 .. Len(gaps') - Len(gaps) |-> Len(gaps) + i]

\* The first exploration of the phase takes the head of the queue with which
\* the phase was entered, and leaves in the queue gaps that followed it.
FirstExploration ==
  (~Expanding /\ Expanding') =>
    /\ obs'.entry[1].queue # <<>>
    /\ run'.current_gap = Head(obs'.entry[1].queue)
    /\ \E n \in 0 .. Len(obs'.entry[1].queue) - 1 :
         gap_search_queue' = SubSeq(obs'.entry[1].queue, 2, n + 1)

\* A step inside the phase appends the gaps it has discovered at the end of
\* the queue and, when it goes on to a further exploration, takes the head
\* of the queue: every gap that was in the queue stays in front of the
\* discovered ones.
QueueStep ==
  Expanding =>
    LET queued == gap_search_queue \o NewGaps IN
    IF Expanding' /\ run'.gaps_processed # run.gaps_processed
    THEN /\ queued # <<>>
         /\ run'.current_gap = Head(queued)
         /\ gap_search_queue' = Tail(queued)
    ELSE /\ gap_search_queue' = queued
         /\ Expanding' => run'.current_gap = run.current_gap

\* C25: gaps are explored in EXPANDING in the order in which they were
\* enqueued: the gap popped is always the oldest one in the queue, and a gap
\* discovered during expansion is explored only after every gap that was in
\* the queue before it.
C25_QueueOrder == [][FirstExploration /\ QueueStep]_vars

\* A second exploration has begun while a gap waits behind it in the queue:
\* the gap explored is older than the one that waits.
C25_Witness ==
  /\ Expanding
  /\ run.gaps_processed = 2
  /\ gap_search_queue # <<>>
  /\ run.current_gap < Head(gap_search_queue)

RECURSIVE StrikesOfFirst(_, _)
\* The strikes of the first n gaps, added up.
StrikesOfFirst(gs, n) ==
  IF n = 0 THEN 0 ELSE gs[n].validation_strikes + StrikesOfFirst(gs, n - 1)

TotalStrikes == StrikesOfFirst(gaps, Len(gaps))

\* The step that ends the validator's call with anything but the verdict
\* "invalidated": the gap gets one strike, one attempt is counted, and the
\* gap is neither removed from the pending store nor counted as eliminated.
KeptGapStruck ==
  (/\ run.pc = "p3_validate"
   /\ run' # run
   /\ run'.time = run.time
   /\ run.gaps_to_validate[run.gap_i] \notin obs'.judged)
  => LET g == run.gaps_to_validate[run.gap_i] IN
     /\ gaps'[g].validation_strikes = gaps[g].validation_strikes + 1
     /\ \A h \in DOMAIN gaps \ {g} : gaps'[h] = gaps[h]
     /\ stats'.validation_attempts = stats.validation_attempts + 1
     /\ stats'.gaps_eliminated = stats.gaps_eliminated
     /\ potential_gaps_db' = potential_gaps_db
     /\ Contains(potential_gaps_db, g)
     /\ g \notin obs'.eliminated

\* C26: in VALIDATING, when the validator reports a gap not invalidated, or
\* the validator call fails, the gap's validation_strikes and the
\* validation-attempts counter each increase by exactly 1 and the gap is not
\* eliminated; consequently the validation-attempts counter always equals
\* the total number of strikes given during the run.
C26_StrikeCountsAttempt ==
  /\ [](stats.validation_attempts = TotalStrikes)
  /\ [][KeptGapStruck]_vars

\* The one gap of a finished run was judged against a document analyzed in
\* VALIDATING and the validator did not report it invalidated (it answered
\* so, or its call failed): the gap has its strike, which did not reach the
\* threshold of 2, and is pending.
C26_Witness ==
  /\ Finished
  /\ obs.threshold = 2
  /\ Len(gaps) = 1
  /\ Len(analyzed_papers) = 2
  /\ analyzed_papers_set = {SeedRef}
  /\ obs.judged = {}
  /\ obs.abandoned = {}
  /\ stats.validation_attempts = 1
  /\ potential_gaps_db = <<1>>
  /\ gaps[1].validation_strikes = 1

\* The step that ends a generate_validation_queries call with the first
\* failure of the run: the query generator has raised.
GeneratorFailedStep ==
  /\ run.pc \in {"p2_queries", "p3_queries"}
  /\ ~obs.call_failed
  /\ obs'.call_failed

\* The search for the same gap is awaited with the two naive queries.
FallbackSearched ==
  IF run.pc = "p2_queries"
  THEN /\ run'.pc = "p2_search"
       /\ run'.current_gap = run.current_gap
       /\ run'.solution_queries = FallbackQueryCount
  ELSE /\ run'.pc = "p3_search"
       /\ run'.gap_i = run.gap_i
       /\ run'.validation_queries = FallbackQueryCount

\* C27: whenever the query generator fails, in EXPANDING as well as in
\* VALIDATING, the caller substitutes a naive fallback query set derived
\* from the gap description and the search for that gap is still performed;
\* the gap is not skipped because of the generator failure.
C27_GeneratorFallback == [][GeneratorFailedStep => FallbackSearched]_vars

\* The run awaits an enrichment of the drain.
Draining == run.pc = "p3_drain_enrich"

\* The gaps of the validation pass from place i to place j.
PassGaps(i, j) == {run.gaps_to_validate[k] : k \in i .. j}

\* The drain begins with the gap at which the deadline was found expired,
\* and the gaps it has gone through are in the final list and no longer in
\* the pending store.
DrainedSoFar ==
  Draining =>
    /\ run.kind = "url" /\ run.time = "late"
    /\ run.drain_i \in run.gap_i .. Len(run.gaps_to_validate)
    /\ PassGaps(run.gap_i, run.drain_i - 1) \subseteq FinalIds \ PendingIds

\* A step into the drain comes from the validation of the gap before the
\* one that begins the drain; a step of the drain goes to the next gap of
\* the pass or ends the run with every gap not yet visited in the final
\* list and out of the pending store; it validates, strikes and eliminates
\* nothing.
DrainStep ==
  /\ (~Draining /\ Draining') =>
       /\ run.pc \in {"p3_search", "p3_analyze", "p3_validate", "p3_enrich"}
       /\ run'.gap_i = run.gap_i + 1
       /\ run'.drain_i = run'.gap_i
  /\ Draining =>
       /\ \/ Draining' /\ run'.drain_i = run.drain_i + 1
                       /\ run'.gap_i = run.gap_i
                       /\ run'.gaps_to_validate = run.gaps_to_validate
          \/ /\ run'.pc = "done"
             /\ run.drain_i = Len(run.gaps_to_validate)
             /\ response'.kind = "ok"
             /\ PassGaps(run.gap_i, Len(run.gaps_to_validate))
                  \subseteq FinalIds' \ PendingIds'
       /\ Len(final_gaps_list') = Len(final_gaps_list) + 1
       /\ stats'.validation_attempts = stats.validation_attempts
       /\ stats'.gaps_eliminated = stats.gaps_eliminated
       /\ \A g \in DOMAIN gaps :
            gaps'[g].validation_strikes = gaps[g].validation_strikes

\* C28: when the deadline is found expired at the top of a VALIDATING
\* iteration, every gap of the validation pass not yet visited is enriched,
\* appended to the final list and removed from the pending store, and after
\* that no further validation attempt, strike or elimination happens in the
\* run.
C28_DrainCompletes == /\ []DrainedSoFar /\ [][DrainStep]_vars

\* The deadline was found expired at the second gap of the pass, after the
\* first had got its strike: the second gap was drained with no strike and
\* the run has ended.
C28_Witness ==
  /\ run.pc = "done"
  /\ obs.threshold = 2
  /\ Len(gaps) = 2
  /\ stats.validation_attempts = 1
  /\ gaps[1].validation_strikes = 1
  /\ gaps[2].validation_strikes = 0
  /\ 2 \in FinalIds \ PendingIds
  /\ \E m \in obs.moves : m.gap_id = 2 /\ m.via = "drain"

\* The gaps that have entered the final list with fewer strikes than the
\* threshold: those enriched because the deadline had been reached.
ForceEnriched == {m \in obs.moves : m.strikes < obs.threshold}

\* C29: the number of gaps force-enriched into the final list because of
\* deadline expiry (gaps that enter the final list with fewer strikes than
\* the threshold) never exceeds the drain cap of 5 in any run, whether the
\* deadline expires before VALIDATING or during it.
C29_ForceEnrichedWithinCap == Cardinality(ForceEnriched) <= SkipEnrichCap

\* The run awaits the validator's enrichment of a gap that must graduate.
Graduating == run.pc \in {"p3_enrich", "p3_drain_enrich", "skip_enrich"}

\* The gap whose enrichment is awaited.
GraduatingGap ==
  IF run.pc = "p3_enrich" THEN run.gaps_to_validate[run.gap_i]
  ELSE IF run.pc = "p3_drain_enrich" THEN run.gaps_to_validate[run.drain_i]
  ELSE run.skip_gaps[run.gap_i]

\* The step that ends the enrichment call appends one validated gap, which
\* carries the id of the gap, to the final list; the gap was not there
\* before, and the run has not failed.
GraduationStep ==
  (Graduating /\ run' # run /\ run'.time = run.time) =>
    LET g == GraduatingGap IN
    /\ Len(final_gaps_list') = Len(final_gaps_list) + 1
    /\ SubSeq(final_gaps_list', 1, Len(final_gaps_list)) = final_gaps_list
    /\ final_gaps_list'[Len(final_gaps_list')].gap_id = gaps[g].gap_id
    /\ gaps[g].gap_id \notin FinalIds
    /\ run'.pc # "failed"
    /\ response'.kind # "error"

\* C30: whenever a gap must graduate (its strikes meet the threshold, or it
\* is drained), exactly one ValidatedGap carrying that gap's id is appended
\* to the final list, whether validator enrichment succeeds, returns nothing
\* or raises; an enrichment failure never leaves the gap ungraduated and
\* never fails the run.
C30_GraduationAppendsOne == [][GraduationStep]_vars

\* A run has ended with a response after two gaps reached the threshold: one
\* has the validator's enrichment, for the other the enrichment failed and
\* the fallback made its validated gap.
C30_Witness ==
  /\ run.pc = "done"
  /\ response.kind = "ok"
  /\ Len(final_gaps_list) = 2
  /\ \A m \in obs.moves : m.via = "threshold"
  /\ \E i, j \in DOMAIN final_gaps_list :
       final_gaps_list[i].quick /\ ~final_gaps_list[j].quick

\* The readings of the clock that the model tells apart.
ClockReadings == {"early", "near", "late"}

\* A run that has ended in DONE has gone through synthesis, which made no
\* call and left the state attributes as it found them.
SynthesisFrame ==
  run.pc = "done" =>
    /\ response.kind = "ok"
    /\ obs.synth # <<>>
    /\ obs.synth[1] = [gap_search_queue |-> gap_search_queue,
                       potential_gaps_db |-> potential_gaps_db,
                       final_gaps_list |-> final_gaps_list,
                       analyzed_papers_set |-> analyzed_papers_set,
                       analyzed_papers |-> analyzed_papers,
                       research_frontier |-> research_frontier,
                       stats |-> stats, gaps |-> gaps, calls |-> obs.calls]

\* The response is the one synthesis builds from the state attributes
\* whatever the clock shows.
SynthesisClockFree ==
  run.pc = "done" =>
    \A t \in ClockReadings :
      phase_4_synthesis([Cur EXCEPT !.run.time = t]).response = response

\* C31: SYNTHESIZING issues no collaborator call, does not read the clock,
\* changes none of the run's state (pending store, final list, queue, sets,
\* counters), and from every state reachable at the end of VALIDATING it
\* succeeds and the run ends in DONE.
C31_SynthesisPure == SynthesisFrame /\ SynthesisClockFree

\* The largest bound that synthesis puts on a rate metric is 100 (percent);
\* in hundredths and in tenths.
RateCapHundredths == 100 * 100
RateCapTenths == 100 * 10
CoverageCapTenths == 85 * 10

\* Each rate metric goes one way in each of its inputs.
RatesMonotonic ==
  \A c, d \in MetricInputs :
    /\ (c.papers <= d.papers /\ c.seconds = d.seconds) =>
         research_velocity(c.papers, c.seconds)
           <= research_velocity(d.papers, d.seconds)
    /\ (c.papers = d.papers /\ c.seconds <= d.seconds) =>
         research_velocity(c.papers, c.seconds)
           >= research_velocity(d.papers, d.seconds)
    /\ (c.discovered <= d.discovered /\ c.papers = d.papers) =>
         gap_discovery_rate(c.discovered, c.papers)
           <= gap_discovery_rate(d.discovered, d.papers)
    /\ (c.discovered = d.discovered /\ c.papers <= d.papers) =>
         gap_discovery_rate(c.discovered, c.papers)
           >= gap_discovery_rate(d.discovered, d.papers)
    /\ (c.eliminated <= d.eliminated /\ c.discovered = d.discovered) =>
         elimination_effectiveness(c.eliminated, c.discovered)
           <= elimination_effectiveness(d.eliminated, d.discovered)
    /\ (c.eliminated = d.eliminated /\ c.discovered <= d.discovered) =>
         elimination_effectiveness(c.eliminated, c.discovered)
           >= elimination_effectiveness(d.eliminated, d.discovered)
    /\ c.papers <= d.papers =>
         frontier_coverage(c.papers) <= frontier_coverage(d.papers)

\* The rates computed are within bounds that do not depend on the counters.
RatesBounded ==
  obs.metrics # <<>> =>
    LET r == obs.metrics[1].rates IN
    /\ r.frontier_coverage <= CoverageCapTenths
    /\ r.elimination_effectiveness <= RateCapTenths
    /\ r.research_velocity <= RateCapHundredths
    /\ r.gap_discovery_rate <= RateCapHundredths

\* C32: every rate metric computed by synthesis (research velocity, gap
\* discovery rate, elimination effectiveness, frontier coverage) is
\* monotonic in its inputs and bounded above by a fixed constant independent
\* of the counters: frontier coverage never exceeds 85 and elimination
\* effectiveness never exceeds 100 percent in any reachable final state.
C32_RatesMonotonicAndBounded == RatesMonotonic /\ RatesBounded

\* C33: at every suspension point of a run and at run end, the discovered
\* counter equals the number of gaps in the pending store plus the number of
\* gaps in the final list plus the eliminated counter: every discovered gap
\* is counted in exactly one of the three.
C33_GapConservation ==
  stats.gaps_discovered =
    Len(potential_gaps_db) + Len(final_gaps_list) + stats.gaps_eliminated

BeforeValidating ==
  obs.phases # <<>> /\ obs.phases[Len(obs.phases)] \in {"SEEDING", "EXPANDING"}

C35_SkipOnlyAfterDeadline ==
  (run.pc = "skip_enrich" \/ \E m \in obs.moves : m.via = "skip")
    => obs.expired_in \in {"SEEDING", "EXPANDING"}

\* A step of EXPANDING, the one that leaves the phase included: the gaps of
\* the pending store stay where they are, and the final list, the strikes
\* and the two counters of VALIDATING are unchanged.
ExpandingLeavesValidationState ==
  Expanding =>
    /\ Len(potential_gaps_db) <= Len(potential_gaps_db')
    /\ SubSeq(potential_gaps_db', 1, Len(potential_gaps_db)) = potential_gaps_db
    /\ final_gaps_list' = final_gaps_list
    /\ \A g \in DOMAIN gaps :
         gaps'[g].validation_strikes = gaps[g].validation_strikes
    /\ stats'.gaps_eliminated = stats.gaps_eliminated
    /\ stats'.validation_attempts = stats.validation_attempts

\* The pending gaps that were in the queue when the phase was entered (the
\* gaps explored and the gaps cut by the truncation of light mode are among
\* them) are in the pending store during the phase and when it is left.
QueuedStayPending ==
  /\ Expanding =>
       Range(obs.entry[1].queue) \cap Range(obs.entry[1].pending)
         \subseteq PendingIds
  /\ (Expanding /\ run.current_gap \in Range(obs.entry[1].pending)) =>
       run.current_gap \in PendingIds

QueuedPendingAtExit ==
  (Expanding /\ ~Expanding') =>
    /\ Range(obs.entry[1].queue) \cap Range(obs.entry[1].pending)
         \subseteq PendingIds'
    /\ \A g \in DOMAIN gaps :
         (g \in PendingIds /\ g \notin QueueIds) => g \in PendingIds'

C37_ProcessedSetMatchesList ==
  /\ Range(analyzed_papers) \subseteq analyzed_papers_set
  /\ Cardinality(analyzed_papers_set) = Len(analyzed_papers)

TypeOK ==
  /\ initialized \in BOOLEAN
  /\ model \in BOOLEAN
  /\ run.pc \in {"idle", "seed", "p2_queries", "p2_search", "p2_related_queries",
                 "p2_related_search", "p2_analyze", "skip_enrich",
                 "p3_drain_enrich", "p3_queries", "p3_search", "p3_analyze",
                 "p3_validate", "p3_enrich", "done", "failed"}
  /\ run.time \in {"early", "near", "late"}
  /\ analyzed_papers_set \subseteq Refs
  /\ Len(gaps) <= MaxGaps
  /\ \A i \in DOMAIN potential_gaps_db : potential_gaps_db[i] \in DOMAIN gaps
  /\ \A i \in DOMAIN gap_search_queue : gap_search_queue[i] \in DOMAIN gaps
=============================================================================
